---- MODULE Spec2Model ----
(***************************************************************************)
(* Key manager (WalletService), permission and approval broker             *)
(* (DappHandler) and the trusted transaction requests of the AETRON wallet *)
(* background service, as state machines.                                  *)
(*                                                                         *)
(* Time is counted in minutes (the code counts milliseconds; every         *)
(* duration in it is a whole number of minutes).  A ciphertext is the pair *)
(* of its plaintext and the password it was encrypted under; decryption    *)
(* fails unless the same password is presented.  A KeyringPair is          *)
(* represented by the address it signs for.  Identifiers drawn from        *)
(* crypto.randomUUID() are successive values of one counter.               *)
(***************************************************************************)
EXTENDS Integers, Sequences, FiniteSets, TLC

\* ---- bounds of the model ----
MaxUuid == 4
MaxTime == 25
MaxCalls == 2
MaxFlows == 2
MaxKeyFlows == 2
MaxTxs == 2
MaxLinks == 2
MaxConnCalls == 2
SaltLen == 1
NonceLen == 1
MaxHotkeyFailures == 6
MaxApprovalTime == 5

\* ---- program constants ----
RateLimitWindow == 15
MaxFailedAttempts == 5
DefaultAutoLockTimeout == 15
ApprovalTimeout == 5
maxReconnectAttempts == 5
ReconnectStep == 2000
ReconnectCeiling == 30000
FallbackFee == 1000000

WalletTypes == {"hd", "privateKey", "keystore", "watch", "multisig"}
Passwords == {"pw1", "pw2"}
Mnemonics == {"m1", "m2"}
MnemonicInputs == Mnemonics \cup {"bad"}
PrivateKeyInputs == {"k1", "kbad"}
KeystoreInputs == {"j1", "jbad"}
KeystorePasswords == {"kp1", "kpx"}
AutoLockChoices == {0, 5, 15}
TickSteps == {5}
TxKinds == {"transfer:send", "staking:add", "staking:remove", "staking:move", "staking:add-limit"}
Origins == {"o1", "o2"}
SensitiveMethods == {"signMessage", "signTransaction", "sendTransaction", "addStake", "removeStake"}
AccountChoices == {{"addr1"}, {"addr1", "addr3"}}
CreationOps == {"createWallet", "importFromMnemonic", "importFromPrivateKey",
                "importFromKeystore"}
ChainOutcomes == {"nonce_failed", "success", "dispatch_error", "transport_error"}
Networks == {"n1", "n2"}
CustomIds == {"custom", "custom_1"}
CustomUrls == {"u1", "u2"}
Queries == {"getBalance", "getStakeInfo", "getNeuronets", "getAllNeuronetsInfo",
            "getNeuronetHotkeys", "getNeuronetPrice"}

VARIABLES
    wallets,          \* store.wallets: sequence of EncryptedWallet
    activeWalletId,   \* store.activeWalletId (0 is null)
    autoLockTimeout,  \* store.settings.autoLockTimeout, minutes
    hotkeys,          \* the hotkey store: sequence of EncryptedHotkey
    lockState,        \* persisted LockState.isLocked
    unlockedWallets,  \* WalletService.unlockedWallets: id -> pair (its address)
    unlockedHotkeys,  \* WalletService.unlockedHotkeys: set of hotkey ids
    unlockAttempts,   \* WalletService.unlockAttempts: id -> [count, lastAttempt]
    hotkeyFailures,   \* history: hotkey id -> times of the failed unlockHotkey
                      \* attempts since the last one that succeeded
    lockTimeout,      \* WalletService.lockTimeout: {} (null) or {deadline}
    nextUuid,         \* next value of crypto.randomUUID()
    now,              \* Date.now(), minutes
    lastUnlock,       \* {} or {[at, timeout]} of the last unlocking operation
    api,              \* ConnectionManager.api: "none" (null) or "up"
    txs,              \* ConnectionManager transaction calls suspended at an await
    apiLink,          \* the link the ApiPromise in api was created on (0 with a null api)
    provider,         \* ConnectionManager.provider: a link id (0 is null)
    links,            \* the links that exist: id -> [status, handler]
    currentNetwork,   \* ConnectionManager.currentNetwork: a network id ("" is null)
    currentUrl,       \* ConnectionManager.currentNetwork.url ("" with a null network)
    isConnecting,     \* ConnectionManager.isConnecting
    reconnectAttempts, \* ConnectionManager.reconnectAttempts
    reconnectTimers,  \* pending reconnect timers, each by its delay in ms
    connFlows,        \* connect calls suspended at an await
    connCalls,        \* explicit connect / disconnect calls made so far
    notified,         \* what onConnectionChange was called with in the last step
    told,             \* what onConnectionChange was last called with (history)
    failures,         \* failed connect attempts since a success or an explicit connect (history)
    disconnected,     \* disconnect() has returned and no connect() was called since (history)
    keyFlows,         \* WalletService calls suspended at an await, with their locals
    permissions,      \* chrome.storage.local permissions: origin -> SitePermission
    permFlows,        \* grant/revoke/disconnect calls suspended before savePermissions
    revoked,          \* origins revoked and not granted again since
    pendingDappRequest, \* chrome.storage.session pendingDappRequest: {} or {request}
    pendingApprovals, \* DappHandler.pendingApprovals: id -> PendingApproval
    nextApprovalId,   \* DappHandler.nextApprovalId
    approvalTimers,   \* the setTimeout callbacks of requestApproval not yet run
    calls,            \* the sensitive dApp calls made so far and their outcome
    approvalLog,      \* per approval id: its call and how often it was settled
    createPage,       \* the CreateWallet page of the popup: its React state
    localStorage,     \* popup localStorage item 'aetron_create_wallet_state'
    walletNames,      \* the names of the coldkeys the creation page has had created
    sealed,           \* the last encrypt() call: its arguments and its package
    opened,           \* the last decrypt() call on that package: its outcome
    lastOp            \* the last operation and what it returned

vars == <<wallets, activeWalletId, autoLockTimeout, hotkeys, lockState,
          unlockedWallets, unlockedHotkeys, unlockAttempts, lockTimeout,
          nextUuid, now, lastUnlock, api, txs, apiLink, provider, links,
          currentNetwork, currentUrl, isConnecting, reconnectAttempts, reconnectTimers,
          connFlows, connCalls, notified, told, failures, disconnected, keyFlows,
          permissions,
          permFlows, createPage, localStorage, walletNames, sealed, opened,
          revoked,
          pendingDappRequest, pendingApprovals, nextApprovalId, approvalTimers,
          calls, approvalLog, hotkeyFailures, lastOp>>

connVars == <<apiLink, provider, links, currentNetwork, currentUrl, isConnecting,
              reconnectAttempts, reconnectTimers, connFlows, connCalls, notified, told,
              failures, disconnected>>
popupVars == <<createPage, localStorage, walletNames>>
cryptoVars == <<sealed, opened>>
storeVars == <<wallets, activeWalletId, autoLockTimeout>>
sessionVars == <<unlockedWallets, unlockedHotkeys, lockTimeout, lockState>>
permVars == <<permissions, permFlows, revoked>>
approvalVars == <<pendingApprovals, nextApprovalId, approvalTimers, calls, approvalLog>>
brokerVars == <<permVars, pendingDappRequest, approvalVars>>
keyVars == <<storeVars, hotkeys, sessionVars, unlockAttempts, nextUuid, now,
             lastUnlock, api, txs, connVars, popupVars, cryptoVars, hotkeyFailures, keyFlows>>

\* ---------------------------------------------------------------- helpers

Min(a, b) == IF a < b THEN a ELSE b

Range(s) == {s[i] : i \in 1..Len(s)}

NoEnc == [pt |-> "", key |-> ""]

\* encrypt(data, password): the package decrypts only under `password`
encrypt(data, password) == [pt |-> data, key |-> password]

\* decrypt(package, password) throws unless the password is the one used
CanDecrypt(package, password) == package /= NoEnc /\ package.key = password

decrypt(package, password) == package.pt

mnemonicValidate(m) == m \in Mnemonics

\* keyBytes.length is 32 or 64
ValidPrivateKey(k) == k = "k1"

\* JSON.parse succeeds and the encoded/encoding/address fields are present
ValidKeystore(j) == j = "j1"

\* pair.decodePkcs8(password) succeeds
KeystoreOpens(j, kp) == j = "j1" /\ kp = "kp1"

\* the address of the pair derived from a secret (deterministic)
AddressOf(secret) ==
    CASE secret = "m1" -> "addr1"
      [] secret = "m2" -> "addr2"
      [] secret = "k1" -> "addr3"
      [] secret = "j1" -> "addr4"
      [] OTHER -> "addr0"

WalletIds == {w.id : w \in Range(wallets)}
HotkeyIds == {h.id : h \in Range(hotkeys)}

HasWallet(id) == id \in WalletIds
FindWallet(id) == CHOOSE w \in Range(wallets) : w.id = id

HasHotkey(id) == id \in HotkeyIds
FindHotkey(id) == CHOOSE h \in Range(hotkeys) : h.id = id

MapSet(m, k, v) == [x \in (DOMAIN m) \cup {k} |-> IF x = k THEN v ELSE m[x]]
MapDelete(m, k) == [x \in (DOMAIN m) \ {k} |-> m[x]]

Op(op, id, result, signer) ==
    [op |-> op, id |-> id, result |-> result, signer |-> signer,
     origin |-> "", method |-> "", accounts |-> {}]

DappOp(op, origin, method, id, result, signer, accounts) ==
    [op |-> op, id |-> id, result |-> result, signer |-> signer,
     origin |-> origin, method |-> method, accounts |-> accounts]

\* isUnlocked(walletId)
isUnlocked(walletId) == walletId \in DOMAIN unlockedWallets

\* getActiveWallet(): the active wallet, if the id is set and in the vault
HasActiveWallet == activeWalletId /= 0 /\ HasWallet(activeWalletId)

\* resetLockTimeout(minutes): the timer that is pending afterwards
resetLockTimeout(minutes) == IF minutes > 0 THEN {now + minutes} ELSE {}

\* ------------------------------------------------------------ key manager

\* NETWORKS: the url of each built-in network
NETWORKS == ("n1" :> "wss-n1") @@ ("n2" :> "wss-n2")

\* the connection manager as constructed
NotYetConnected ==
    /\ apiLink = 0
    /\ provider = 0
    /\ links = <<>>
    /\ currentNetwork = ""
    /\ currentUrl = ""
    /\ told = FALSE

\* the connection manager after a first connect("n1") that succeeded
ConnectedAtStart ==
    /\ apiLink = 1
    /\ provider = 1
    /\ links = (1 :> [status |-> "open", handler |-> TRUE, url |-> NETWORKS["n1"]])
    /\ currentNetwork = "n1"
    /\ currentUrl = NETWORKS["n1"]
    /\ told = TRUE

\* the CreateWallet page is not shown
Closed == [step |-> "closed", name |-> "", password |-> "", mnemonic |-> ""]

\* localStorage.getItem(STORAGE_KEY) is null
NoSaved == [step |-> "", name |-> "", mnemonic |-> "", timestamp |-> 0]

\* nothing has been encrypted, nothing decrypted
Unsealed == [data |-> <<>>, password |-> <<>>, package |-> <<>>]

NotOpened == [called |-> FALSE, ok |-> FALSE, text |-> <<>>, password |-> <<>>]

\* the service and the broker as constructed, before any request
Started ==
    /\ autoLockTimeout = DefaultAutoLockTimeout
    /\ lockState = TRUE
    /\ unlockedWallets = <<>>
    /\ unlockedHotkeys = {}
    /\ unlockAttempts = <<>>
    /\ hotkeyFailures = <<>>
    /\ lockTimeout = {}
    /\ now = 0
    /\ lastUnlock = {}
    /\ \/ api = "none" /\ NotYetConnected
       \/ api = "up" /\ ConnectedAtStart
    /\ isConnecting = FALSE
    /\ reconnectAttempts = 0
    /\ reconnectTimers = {}
    /\ connFlows = {}
    /\ connCalls = 0
    /\ notified = "none"
    /\ failures = 0
    /\ disconnected = FALSE
    /\ createPage = Closed
    /\ localStorage = NoSaved
    /\ walletNames = {}
    /\ sealed = Unsealed
    /\ opened = NotOpened
    /\ txs = {}
    /\ keyFlows = {}
    /\ permissions = <<>>
    /\ permFlows = {}
    /\ revoked = {}
    /\ pendingDappRequest = {}
    /\ pendingApprovals = <<>>
    /\ nextApprovalId = 1
    /\ approvalTimers = {}
    /\ calls = <<>>
    /\ approvalLog = <<>>
    /\ lastOp = Op("init", 0, "", "")

\* a fresh installation: the stored vault is empty
Init ==
    /\ wallets = <<>>
    /\ activeWalletId = 0
    /\ hotkeys = <<>>
    /\ nextUuid = 1
    /\ Started

\* a coldkey of the data model as it is found in the persisted vault
StoredWallet(type) ==
    [id |-> 1, type |-> type, address |-> "addr1",
     encrypted |-> CASE type = "hd" -> encrypt("m1", "pw1")
                     [] type = "privateKey" -> encrypt("k1", "pw1")
                     [] type = "keystore" -> encrypt("j1", "pw1")
                     [] OTHER -> NoEnc,
     keystorePassword |-> IF type = "keystore" THEN encrypt("kp1", "pw1") ELSE NoEnc]

\* the service starts over a persisted vault that holds one coldkey
InitStored ==
    /\ \E type \in WalletTypes : wallets = <<StoredWallet(type)>>
    /\ activeWalletId = 1
    /\ hotkeys = <<>>
    /\ nextUuid = 2
    /\ Started

\* no default hotkey is stored
createNoDefaultHotkey(coldkeyId, password, id) == hotkeys

\* createDefaultHotkey(coldkeyId, password): the hotkey store afterwards
createDefaultHotkey(coldkeyId, password, id) ==
    Append(hotkeys, [id |-> id, coldkeyId |-> coldkeyId,
                     encrypted |-> encrypt("hotkey-mnemonic", password),
                     backedUp |-> FALSE])

\* The common tail of createWallet and the three imports: duplicate-address
\* check, push, activate, save, keep unlocked, re-arm the auto-lock timer,
\* create the default hotkey.
AddColdkey(op, type, secret, encrypted, keystorePassword, password) ==
    LET address == AddressOf(secret)
        id == nextUuid
    IN
    IF \E w \in Range(wallets) : w.address = address
    THEN /\ lastOp' = Op(op, 0, "duplicate_address", "")
         /\ UNCHANGED <<storeVars, hotkeys, sessionVars, nextUuid, lastUnlock>>
    ELSE /\ nextUuid + 1 <= MaxUuid
         /\ wallets' = Append(wallets, [id |-> id, type |-> type, address |-> address,
                                        encrypted |-> encrypted,
                                        keystorePassword |-> keystorePassword])
         /\ activeWalletId' = id
         /\ unlockedWallets' = MapSet(unlockedWallets, id, address)
         /\ lockTimeout' = resetLockTimeout(autoLockTimeout)
         /\ hotkeys' = createDefaultHotkey(id, password, id + 1)
         /\ unlockedHotkeys' = unlockedHotkeys \cup {id + 1}
         /\ nextUuid' = nextUuid + 2
         /\ lastUnlock' = {[at |-> now, timeout |-> autoLockTimeout]}
         /\ lastOp' = Op(op, id, "created", "")
         /\ UNCHANGED <<autoLockTimeout, lockState>>

createWallet(password, seedPhrase) ==
    /\ IF ~mnemonicValidate(seedPhrase)
       THEN /\ lastOp' = Op("createWallet", 0, "invalid", "")
            /\ UNCHANGED <<storeVars, hotkeys, sessionVars, nextUuid, lastUnlock>>
       ELSE AddColdkey("createWallet", "hd", seedPhrase,
                       encrypt(seedPhrase, password), NoEnc, password)
    /\ UNCHANGED <<unlockAttempts, now, api, txs, connVars, popupVars, cryptoVars, hotkeyFailures, keyFlows, brokerVars>>

importFromMnemonic(mnemonic, password) ==
    /\ IF ~mnemonicValidate(mnemonic)
       THEN /\ lastOp' = Op("importFromMnemonic", 0, "invalid", "")
            /\ UNCHANGED <<storeVars, hotkeys, sessionVars, nextUuid, lastUnlock>>
       ELSE AddColdkey("importFromMnemonic", "hd", mnemonic,
                       encrypt(mnemonic, password), NoEnc, password)
    /\ UNCHANGED <<unlockAttempts, now, api, txs, connVars, popupVars, cryptoVars, hotkeyFailures, keyFlows, brokerVars>>

importFromPrivateKey(privateKey, password) ==
    /\ IF ~ValidPrivateKey(privateKey)
       THEN /\ lastOp' = Op("importFromPrivateKey", 0, "invalid", "")
            /\ UNCHANGED <<storeVars, hotkeys, sessionVars, nextUuid, lastUnlock>>
       ELSE AddColdkey("importFromPrivateKey", "privateKey", privateKey,
                       encrypt(privateKey, password), NoEnc, password)
    /\ UNCHANGED <<unlockAttempts, now, api, txs, connVars, popupVars, cryptoVars, hotkeyFailures, keyFlows, brokerVars>>

importFromKeystore(keystoreJson, keystorePassword, newPassword) ==
    /\ IF ~ValidKeystore(keystoreJson) \/ ~KeystoreOpens(keystoreJson, keystorePassword)
       THEN /\ lastOp' = Op("importFromKeystore", 0, "invalid", "")
            /\ UNCHANGED <<storeVars, hotkeys, sessionVars, nextUuid, lastUnlock>>
       ELSE AddColdkey("importFromKeystore", "keystore", keystoreJson,
                       encrypt(keystoreJson, newPassword),
                       encrypt(keystorePassword, newPassword), newPassword)
    /\ UNCHANGED <<unlockAttempts, now, api, txs, connVars, popupVars, cryptoVars, hotkeyFailures, keyFlows, brokerVars>>

\* unlockAttempts.get(walletId) || { count: 0, lastAttempt: 0 }
GetAttempts(walletId) ==
    IF walletId \in DOMAIN unlockAttempts
    THEN unlockAttempts[walletId]
    ELSE [count |-> 0, lastAttempt |-> 0]

\* "Reset after 15 minutes": the record after the window test
WindowReset(attempts) ==
    IF now - attempts.lastAttempt > RateLimitWindow
    THEN [attempts EXCEPT !.count = 0]
    ELSE attempts

\* mutant: the limit is tested with > (a sixth attempt is let through)
RateLimitedOffByOne(attempts) == attempts.count > MaxFailedAttempts

\* the rate-limit test that throws before the store is read
RateLimited(attempts) == attempts.count >= MaxFailedAttempts

\* The record fetched from the map is reset in place, so a stored record
\* keeps the reset on every path that does not overwrite or delete it.
AttemptsInPlace(walletId, attempts) ==
    IF walletId \in DOMAIN unlockAttempts
    THEN [unlockAttempts EXCEPT ![walletId] = attempts]
    ELSE unlockAttempts

\* whether decryption and key derivation succeed in unlockWallet's try block
UnlockDecrypts(wallet, password) ==
    /\ CanDecrypt(wallet.encrypted, password)
    /\ CASE wallet.type = "hd" -> TRUE
         [] wallet.type = "privateKey" -> TRUE
         [] wallet.type = "keystore" ->
               /\ CanDecrypt(wallet.keystorePassword, password)
               /\ KeystoreOpens(decrypt(wallet.encrypted, password),
                                decrypt(wallet.keystorePassword, password))
         [] OTHER -> FALSE

unlockWallet(walletId, password) ==
    LET attempts == WindowReset(GetAttempts(walletId)) IN
    /\ IF RateLimited(attempts)
       THEN /\ lastOp' = Op("unlockWallet", walletId, "rate_limited", "")
            /\ unlockAttempts' = AttemptsInPlace(walletId, attempts)
            /\ UNCHANGED <<sessionVars, lastUnlock>>
       ELSE IF ~HasWallet(walletId)
       THEN /\ lastOp' = Op("unlockWallet", walletId, "not_found", "")
            /\ unlockAttempts' = AttemptsInPlace(walletId, attempts)
            /\ UNCHANGED <<sessionVars, lastUnlock>>
       ELSE LET wallet == FindWallet(walletId) IN
            IF wallet.type \in {"watch", "multisig"}
            THEN /\ lastOp' = Op("unlockWallet", walletId, "true", "")
                 /\ unlockAttempts' = AttemptsInPlace(walletId, attempts)
                 /\ UNCHANGED <<sessionVars, lastUnlock>>
            ELSE IF UnlockDecrypts(wallet, password)
            THEN /\ unlockedWallets' = MapSet(unlockedWallets, walletId, wallet.address)
                 /\ unlockAttempts' = MapDelete(unlockAttempts, walletId)
                 /\ lockTimeout' = resetLockTimeout(autoLockTimeout)
                 /\ lockState' = FALSE
                 /\ lastUnlock' = {[at |-> now, timeout |-> autoLockTimeout]}
                 /\ lastOp' = Op("unlockWallet", walletId, "true", "")
                 /\ UNCHANGED unlockedHotkeys
            ELSE /\ unlockAttempts' = MapSet(unlockAttempts, walletId,
                                        [count |-> attempts.count + 1, lastAttempt |-> now])
                 /\ lastOp' = Op("unlockWallet", walletId, "false", "")
                 /\ UNCHANGED <<sessionVars, lastUnlock>>
    /\ UNCHANGED <<storeVars, hotkeys, nextUuid, now, api, txs, connVars, popupVars, cryptoVars, hotkeyFailures, keyFlows, brokerVars>>

\* mutant: lock() forgets the hotkey cache
LockEffectKeepsHotkeys ==
    /\ unlockedWallets' = <<>>
    /\ unlockedHotkeys' = unlockedHotkeys
    /\ lockTimeout' = {}
    /\ lockState' = TRUE

\* lock(): also the body of the auto-lock timer's callback
LockEffect ==
    /\ unlockedWallets' = <<>>
    /\ unlockedHotkeys' = {}
    /\ lockTimeout' = {}
    /\ lockState' = TRUE

lock ==
    /\ LockEffect
    /\ lastOp' = Op("lock", 0, "", "")
    /\ UNCHANGED <<storeVars, hotkeys, unlockAttempts, nextUuid, now, lastUnlock, api, txs, connVars, popupVars, cryptoVars, hotkeyFailures, keyFlows, brokerVars>>

\* the callback armed by resetLockTimeout, run when its delay has elapsed
AutoLockFire ==
    /\ \E d \in lockTimeout : d <= now
    /\ LockEffect
    /\ lastOp' = Op("autoLock", 0, "", "")
    /\ UNCHANGED <<storeVars, hotkeys, unlockAttempts, nextUuid, now, lastUnlock, api, txs, connVars, popupVars, cryptoVars, hotkeyFailures, keyFlows, brokerVars>>

\* time passes; a timer that is due runs before time passes further
Tick ==
    /\ \E step \in TickSteps :
          /\ now + step <= MaxTime
          /\ \A d \in lockTimeout : now + step <= d
          /\ \A t \in approvalTimers : now + step <= t.deadline
          /\ now' = now + step
    /\ lastOp' = Op("tick", 0, "", "")
    /\ UNCHANGED <<storeVars, hotkeys, sessionVars, unlockAttempts, nextUuid, lastUnlock, api, txs, connVars, popupVars, cryptoVars, hotkeyFailures, keyFlows, brokerVars>>

\* updateSettings(settings): `minutes` is {} when the payload leaves
\* autoLockTimeout undefined, {m} when it sets it
updateSettings(minutes) ==
    /\ autoLockTimeout' = IF minutes = {} THEN autoLockTimeout
                          ELSE CHOOSE m \in minutes : TRUE
    /\ lockTimeout' = IF minutes = {} THEN lockTimeout
                      ELSE resetLockTimeout(CHOOSE m \in minutes : TRUE)
    /\ lastOp' = Op("updateSettings", 0, "", "")
    /\ UNCHANGED <<wallets, activeWalletId, hotkeys, lockState, unlockedWallets,
                   unlockedHotkeys, unlockAttempts, nextUuid, now, lastUnlock, api, txs, connVars, popupVars, cryptoVars, hotkeyFailures, keyFlows, brokerVars>>

\* the hotkey store is left as it was
HotkeysKept(hs, walletId) == hs

\* hotkeys.filter((h) => h.coldkeyId !== walletId)
HotkeysWithout(hs, walletId) == SelectSeq(hs, LAMBDA h : h.coldkeyId /= walletId)

deleteWallet(walletId) ==
    LET kept == SelectSeq(wallets, LAMBDA w : w.id /= walletId) IN
    /\ wallets' = kept
    /\ unlockedWallets' = MapDelete(unlockedWallets, walletId)
    /\ activeWalletId' = IF activeWalletId = walletId
                         THEN (IF Len(kept) > 0 THEN kept[1].id ELSE 0)
                         ELSE activeWalletId
    /\ hotkeys' = HotkeysWithout(hotkeys, walletId)
    /\ lastOp' = Op("deleteWallet", walletId, "", "")
    /\ UNCHANGED <<autoLockTimeout, lockState, unlockedHotkeys, unlockAttempts,
                   lockTimeout, nextUuid, now, lastUnlock, api, txs, connVars, popupVars, cryptoVars, hotkeyFailures, keyFlows, brokerVars>>

clearAllWallets ==
    /\ LockEffect
    /\ unlockAttempts' = <<>>
    /\ wallets' = <<>>
    /\ activeWalletId' = 0
    /\ hotkeys' = <<>>
    /\ lastOp' = Op("clearAllWallets", 0, "", "")
    /\ UNCHANGED <<autoLockTimeout, nextUuid, now, lastUnlock, api, txs, connVars, popupVars, cryptoVars, hotkeyFailures, keyFlows, brokerVars>>

\* the wallet's name and updatedAt are not part of the modelled state
renameWallet(walletId) ==
    /\ lastOp' = Op("renameWallet", walletId, IF HasWallet(walletId) THEN "renamed" ELSE "", "")
    /\ UNCHANGED <<storeVars, hotkeys, sessionVars, unlockAttempts, nextUuid, now,
                   lastUnlock, api, txs, connVars, popupVars, cryptoVars, hotkeyFailures, keyFlows, brokerVars>>

setActiveWallet(walletId) ==
    /\ activeWalletId' = IF HasWallet(walletId) THEN walletId ELSE activeWalletId
    /\ lastOp' = Op("setActiveWallet", walletId, "", "")
    /\ UNCHANGED <<wallets, autoLockTimeout, hotkeys, sessionVars, unlockAttempts,
                   nextUuid, now, lastUnlock, api, txs, connVars, popupVars, cryptoVars, hotkeyFailures, keyFlows, brokerVars>>

\* what changePassword did and what its caller is told: the call returns
\* nothing, so no skipped hotkey is ever reported
ChangeOp(walletId, result, currentPassword, newPassword, skipped) ==
    [op |-> "changePassword", id |-> walletId, result |-> result, signer |-> "",
     origin |-> "", method |-> "", accounts |-> {},
     current |-> currentPassword, new |-> newPassword,
     skipped |-> skipped, reported |-> {}]

\* the hotkeys of the coldkey whose decryption throws in the loop
SkippedHotkeys(hs, walletId, currentPassword) ==
    {h.id : h \in {x \in Range(hs) : x.coldkeyId = walletId
                                      /\ ~CanDecrypt(x.encrypted, currentPassword)}}

\* mutant: every hotkey of the coldkey is put under the new password, the
\* ones that do not decrypt under the current password included
ReEncryptEveryHotkey(hs, walletId, currentPassword, newPassword) ==
    [i \in 1..Len(hs) |->
        IF hs[i].coldkeyId = walletId
        THEN [hs[i] EXCEPT !.encrypted = encrypt(hs[i].encrypted.pt, newPassword)]
        ELSE hs[i]]

\* the loop over the hotkey store: a hotkey of the coldkey that decrypts
\* under the current password is re-encrypted, one that does not is skipped
ReEncryptHotkeys(hs, walletId, currentPassword, newPassword) ==
    [i \in 1..Len(hs) |->
        IF hs[i].coldkeyId = walletId /\ CanDecrypt(hs[i].encrypted, currentPassword)
        THEN [hs[i] EXCEPT !.encrypted =
                 encrypt(decrypt(hs[i].encrypted, currentPassword), newPassword)]
        ELSE hs[i]]

changePassword(walletId, currentPassword, newPassword) ==
    /\ IF ~HasWallet(walletId)
       THEN /\ lastOp' = ChangeOp(walletId, "not_found", currentPassword, newPassword, {})
            /\ UNCHANGED <<wallets, hotkeys>>
       ELSE LET wallet == FindWallet(walletId) IN
            IF wallet.type \in {"watch", "multisig"}
            THEN /\ lastOp' = ChangeOp(walletId, "unsupported", currentPassword, newPassword, {})
                 /\ UNCHANGED <<wallets, hotkeys>>
            ELSE IF ~CanDecrypt(wallet.encrypted, currentPassword)
            THEN /\ lastOp' = ChangeOp(walletId, "incorrect", currentPassword, newPassword, {})
                 /\ UNCHANGED <<wallets, hotkeys>>
            ELSE /\ wallets' = [i \in 1..Len(wallets) |->
                        IF wallets[i].id = walletId
                        THEN [wallets[i] EXCEPT !.encrypted =
                                 encrypt(decrypt(wallet.encrypted, currentPassword), newPassword)]
                        ELSE wallets[i]]
                 /\ hotkeys' = ReEncryptHotkeys(hotkeys, walletId, currentPassword,
                                                newPassword)
                 /\ lastOp' = ChangeOp(walletId, "changed", currentPassword, newPassword,
                                     SkippedHotkeys(hotkeys, walletId, currentPassword))
    /\ UNCHANGED <<activeWalletId, autoLockTimeout, sessionVars, unlockAttempts,
                   nextUuid, now, lastUnlock, api, txs, connVars, popupVars, cryptoVars, hotkeyFailures, keyFlows, brokerVars>>

\* ------------------------------------------------------------------ signing

\* mutant: the pair is looked up in the vault instead of the unlocked session
SignWithStoredKey(op, walletId) ==
    /\ lastOp' = IF HasWallet(walletId)
                 THEN Op(op, walletId, "signed", FindWallet(walletId).address)
                 ELSE Op(op, walletId, "locked", "")
    /\ UNCHANGED <<storeVars, hotkeys, sessionVars, unlockAttempts, nextUuid, now,
                   lastUnlock, api, txs, connVars, popupVars, cryptoVars, hotkeyFailures, keyFlows, brokerVars>>

\* getKeypair(walletId) || null, then pair.sign(...)
SignWith(op, walletId) ==
    /\ lastOp' = IF isUnlocked(walletId)
                 THEN Op(op, walletId, "signed", unlockedWallets[walletId])
                 ELSE Op(op, walletId, "locked", "")
    /\ UNCHANGED <<storeVars, hotkeys, sessionVars, unlockAttempts, nextUuid, now,
                   lastUnlock, api, txs, connVars, popupVars, cryptoVars, hotkeyFailures, keyFlows, brokerVars>>

signMessage(walletId) == SignWith("signMessage", walletId)

signTransaction(walletId) == SignWith("signTransaction", walletId)

\* ConnectionManager.transfer / addStake / removeStake / moveStake /
\* addStakeLimit with a captured signer: "not_connected" is the throw on a
\* null api; otherwise the nonce fetch fails before anything is signed, or
\* the payload is signed with the signer and submitted, and the chain
\* reports the outcome.
TxResult(op, walletId, signerAddress, outcome) ==
    IF api = "none" THEN Op(op, walletId, "not_connected", "")
    ELSE IF outcome = "nonce_failed" THEN Op(op, walletId, "nonce_failed", "")
    ELSE Op(op, walletId, outcome, signerAddress)

SubmitTx(op, walletId, signerAddress, outcome) ==
    lastOp' = TxResult(op, walletId, signerAddress, outcome)

\* handlePopupMessage: transfer:send, staking:add, staking:remove,
\* staking:move, staking:add-limit
TxRequest(kind, outcome) ==
    /\ IF ~HasActiveWallet
       THEN lastOp' = Op(kind, 0, "no_active", "")
       ELSE IF ~isUnlocked(activeWalletId)
       THEN lastOp' = Op(kind, activeWalletId, "locked", "")
       ELSE SubmitTx(kind, activeWalletId, unlockedWallets[activeWalletId], outcome)
    /\ UNCHANGED <<storeVars, hotkeys, sessionVars, unlockAttempts, nextUuid, now,
                   lastUnlock, api, txs, connVars, popupVars, cryptoVars, hotkeyFailures, keyFlows, brokerVars>>

\* ------------------------------------------------------------------ hotkeys

AddHotkey(op, coldkeyId, password, backedUp) ==
    /\ IF ~HasWallet(coldkeyId)
       THEN /\ lastOp' = Op(op, coldkeyId, "not_found", "")
            /\ UNCHANGED <<hotkeys, unlockedHotkeys, nextUuid>>
       ELSE IF ~CanDecrypt(FindWallet(coldkeyId).encrypted, password)
       THEN /\ lastOp' = Op(op, coldkeyId, "invalid_password", "")
            /\ UNCHANGED <<hotkeys, unlockedHotkeys, nextUuid>>
       ELSE /\ nextUuid <= MaxUuid
            /\ hotkeys' = Append(hotkeys, [id |-> nextUuid, coldkeyId |-> coldkeyId,
                                           encrypted |-> encrypt("hotkey-mnemonic", password),
                                           backedUp |-> backedUp])
            /\ unlockedHotkeys' = unlockedHotkeys \cup {nextUuid}
            /\ nextUuid' = nextUuid + 1
            /\ lastOp' = Op(op, nextUuid, "created", "")
    /\ UNCHANGED <<storeVars, lockState, unlockedWallets, unlockAttempts, lockTimeout,
                   now, lastUnlock, api, txs, connVars, popupVars, cryptoVars, hotkeyFailures, keyFlows, brokerVars>>

createHotkey(coldkeyId, password) == AddHotkey("createHotkey", coldkeyId, password, FALSE)

importHotkey(mnemonic, coldkeyId, password) ==
    IF ~mnemonicValidate(mnemonic)
    THEN /\ lastOp' = Op("importHotkey", coldkeyId, "invalid", "")
         /\ UNCHANGED <<storeVars, hotkeys, sessionVars, unlockAttempts, nextUuid, now,
                        lastUnlock, api, txs, connVars, popupVars, cryptoVars, hotkeyFailures, keyFlows, brokerVars>>
    ELSE AddHotkey("importHotkey", coldkeyId, password, TRUE)

markHotkeyBackedUp(hotkeyId) ==
    /\ hotkeys' = [i \in 1..Len(hotkeys) |->
                      IF hotkeys[i].id = hotkeyId
                      THEN [hotkeys[i] EXCEPT !.backedUp = TRUE]
                      ELSE hotkeys[i]]
    /\ lastOp' = Op("markHotkeyBackedUp", hotkeyId, "", "")
    /\ UNCHANGED <<storeVars, sessionVars, unlockAttempts, nextUuid, now, lastUnlock, api, txs, connVars, popupVars, cryptoVars, hotkeyFailures, keyFlows, brokerVars>>

\* the times of the failed unlockHotkey attempts on hotkeyId so far
HotkeyFailures(hotkeyId) ==
    IF hotkeyId \in DOMAIN hotkeyFailures THEN hotkeyFailures[hotkeyId] ELSE <<>>

unlockHotkey(hotkeyId, password) ==
    /\ IF ~HasHotkey(hotkeyId)
       THEN /\ lastOp' = Op("unlockHotkey", hotkeyId, "not_found", "")
            /\ UNCHANGED <<unlockedHotkeys, hotkeyFailures>>
       ELSE IF CanDecrypt(FindHotkey(hotkeyId).encrypted, password)
       THEN /\ unlockedHotkeys' = unlockedHotkeys \cup {hotkeyId}
            /\ hotkeyFailures' = MapDelete(hotkeyFailures, hotkeyId)
            /\ lastOp' = Op("unlockHotkey", hotkeyId, "true", "")
       ELSE /\ Len(HotkeyFailures(hotkeyId)) < MaxHotkeyFailures
            /\ hotkeyFailures' = MapSet(hotkeyFailures, hotkeyId,
                                        Append(HotkeyFailures(hotkeyId), now))
            /\ lastOp' = Op("unlockHotkey", hotkeyId, "false", "")
            /\ UNCHANGED unlockedHotkeys
    /\ UNCHANGED <<storeVars, hotkeys, lockState, unlockedWallets, unlockAttempts,
                   lockTimeout, nextUuid, now, lastUnlock, api, txs, connVars, popupVars,
                   cryptoVars, keyFlows, brokerVars>>

deleteHotkey(hotkeyId) ==
    /\ hotkeys' = SelectSeq(hotkeys, LAMBDA h : h.id /= hotkeyId)
    /\ unlockedHotkeys' = unlockedHotkeys \ {hotkeyId}
    /\ lastOp' = Op("deleteHotkey", hotkeyId, "", "")
    /\ UNCHANGED <<storeVars, lockState, unlockedWallets, unlockAttempts, lockTimeout,
                   nextUuid, now, lastUnlock, api, txs, connVars, popupVars, cryptoVars, hotkeyFailures, keyFlows, brokerVars>>

\* ------------------------------------ key-manager calls, await by await
\*
\* A storage read returns the value stored when it was issued; the caller
\* continues later with that copy.  A storage write replaces the whole stored
\* value when it is issued.  Each action below is one continuation: it runs
\* from where an await returns to the next storage access on which the call
\* suspends.  Nothing is returned to a caller until the call completes.

Awaiting == Op("await", 0, "", "")

NoWallet == [id |-> 0, type |-> "", address |-> "", encrypted |-> NoEnc,
             keystorePassword |-> NoEnc]

\* getWalletStore(): the WalletStore object as stored now
WalletStoreNow ==
    [wallets |-> wallets, activeWalletId |-> activeWalletId,
     autoLockTimeout |-> autoLockTimeout]

NoStore == [wallets |-> <<>>, activeWalletId |-> 0, autoLockTimeout |-> 0]

\* the locals of a suspended call
Flow(op, pc, id, hid, password, new, item, store, hs) ==
    [op |-> op, pc |-> pc, id |-> id, hid |-> hid, password |-> password,
     new |-> new, item |-> item, store |-> store, hotkeys |-> hs]

Suspend(f, g) == (keyFlows \ {f}) \cup {g}

\* saveWalletStore(store)
saveWalletStore(store) ==
    /\ wallets' = store.wallets
    /\ activeWalletId' = store.activeWalletId
    /\ autoLockTimeout' = store.autoLockTimeout

\* createWallet / importFrom*: validation passed, the id is drawn, the secret
\* is encrypted and getWalletStore() is issued
AddColdkeyBegin(op, type, secret, encrypted, keystorePassword, password) ==
    /\ Cardinality(keyFlows) < MaxKeyFlows
    /\ nextUuid <= MaxUuid
    /\ keyFlows' = keyFlows \cup
          {Flow(op, "check", nextUuid, 0, password, "",
                [id |-> nextUuid, type |-> type, address |-> AddressOf(secret),
                 encrypted |-> encrypted, keystorePassword |-> keystorePassword],
                WalletStoreNow, <<>>)}
    /\ nextUuid' = nextUuid + 1
    /\ lastOp' = Awaiting
    /\ UNCHANGED <<storeVars, hotkeys, sessionVars, unlockAttempts, now, lastUnlock,
                   api, txs, connVars, popupVars, cryptoVars, hotkeyFailures, brokerVars>>

\* the duplicate-address check on the copy, then push, activate and save
AddColdkeySave(f) ==
    /\ f \in keyFlows /\ f.op \in CreationOps /\ f.pc = "check"
    /\ IF \E w \in Range(f.store.wallets) : w.address = f.item.address
       THEN /\ keyFlows' = keyFlows \ {f}
            /\ lastOp' = Op(f.op, 0, "duplicate_address", "")
            /\ UNCHANGED storeVars
       ELSE /\ saveWalletStore([f.store EXCEPT !.wallets = Append(@, f.item),
                                               !.activeWalletId = f.id])
            /\ keyFlows' = Suspend(f, [f EXCEPT !.pc = "unlock"])
            /\ lastOp' = Awaiting
    /\ UNCHANGED <<hotkeys, sessionVars, unlockAttempts, nextUuid, now, lastUnlock,
                   api, txs, connVars, popupVars, cryptoVars, hotkeyFailures, brokerVars>>

\* the pair is cached, the timer re-armed from the copy's settings, and
\* createDefaultHotkey runs up to its getHotkeyStore()
AddColdkeyUnlock(f) ==
    /\ f \in keyFlows /\ f.op \in CreationOps /\ f.pc = "unlock"
    /\ nextUuid <= MaxUuid
    /\ unlockedWallets' = MapSet(unlockedWallets, f.id, f.item.address)
    /\ lockTimeout' = resetLockTimeout(f.store.autoLockTimeout)
    /\ lastUnlock' = {[at |-> now, timeout |-> f.store.autoLockTimeout]}
    /\ nextUuid' = nextUuid + 1
    /\ keyFlows' = Suspend(f, [f EXCEPT !.pc = "hotkey", !.hid = nextUuid,
                                        !.hotkeys = hotkeys])
    /\ lastOp' = Awaiting
    /\ UNCHANGED <<storeVars, hotkeys, unlockedHotkeys, lockState, unlockAttempts,
                   now, api, txs, connVars, popupVars, cryptoVars, hotkeyFailures, brokerVars>>

\* createDefaultHotkey: push on the copy, saveHotkeyStore, cache the pair
AddColdkeyHotkey(f) ==
    /\ f \in keyFlows /\ f.op \in CreationOps /\ f.pc = "hotkey"
    /\ hotkeys' = Append(f.hotkeys, [id |-> f.hid, coldkeyId |-> f.id,
                                     encrypted |-> encrypt("hotkey-mnemonic", f.password),
                                     backedUp |-> FALSE])
    /\ unlockedHotkeys' = unlockedHotkeys \cup {f.hid}
    /\ keyFlows' = keyFlows \ {f}
    /\ lastOp' = Op(f.op, f.id, "created", "")
    /\ UNCHANGED <<storeVars, lockState, unlockedWallets, lockTimeout, unlockAttempts,
                   nextUuid, now, lastUnlock, api, txs, connVars, popupVars, cryptoVars, hotkeyFailures, brokerVars>>

\* createHotkey: getWalletStore() is issued
createHotkeyBegin(coldkeyId, password) ==
    /\ Cardinality(keyFlows) < MaxKeyFlows
    /\ keyFlows' = keyFlows \cup
          {Flow("createHotkey", "verify", coldkeyId, 0, password, "", NoWallet,
                WalletStoreNow, <<>>)}
    /\ lastOp' = Awaiting
    /\ UNCHANGED <<storeVars, hotkeys, sessionVars, unlockAttempts, nextUuid, now,
                   lastUnlock, api, txs, connVars, popupVars, cryptoVars, hotkeyFailures, brokerVars>>

\* the coldkey is looked up in the copy and the password verified against
\* it; the hotkey is generated, its id drawn, and its encryption started
createHotkeyVerify(f) ==
    /\ f \in keyFlows /\ f.op = "createHotkey" /\ f.pc = "verify"
    /\ IF ~\E w \in Range(f.store.wallets) : w.id = f.id
       THEN /\ keyFlows' = keyFlows \ {f}
            /\ lastOp' = Op("createHotkey", f.id, "not_found", "")
            /\ UNCHANGED nextUuid
       ELSE IF ~CanDecrypt((CHOOSE w \in Range(f.store.wallets) : w.id = f.id).encrypted,
                           f.password)
       THEN /\ keyFlows' = keyFlows \ {f}
            /\ lastOp' = Op("createHotkey", f.id, "invalid_password", "")
            /\ UNCHANGED nextUuid
       ELSE /\ nextUuid <= MaxUuid
            /\ nextUuid' = nextUuid + 1
            /\ keyFlows' = Suspend(f, [f EXCEPT !.pc = "encrypt", !.hid = nextUuid])
            /\ lastOp' = Awaiting
    /\ UNCHANGED <<storeVars, hotkeys, sessionVars, unlockAttempts, now, lastUnlock,
                   api, txs, connVars, popupVars, cryptoVars, hotkeyFailures, brokerVars>>

\* the mnemonic is encrypted: getHotkeyStore() is issued
createHotkeyRead(f) ==
    /\ f \in keyFlows /\ f.op = "createHotkey" /\ f.pc = "encrypt"
    /\ keyFlows' = Suspend(f, [f EXCEPT !.pc = "push", !.hotkeys = hotkeys])
    /\ lastOp' = Awaiting
    /\ UNCHANGED <<storeVars, hotkeys, sessionVars, unlockAttempts, nextUuid, now,
                   lastUnlock, api, txs, connVars, popupVars, cryptoVars, hotkeyFailures, brokerVars>>

\* push on the copy, saveHotkeyStore, cache the pair
createHotkeySave(f) ==
    /\ f \in keyFlows /\ f.op = "createHotkey" /\ f.pc = "push"
    /\ hotkeys' = Append(f.hotkeys, [id |-> f.hid, coldkeyId |-> f.id,
                                     encrypted |-> encrypt("hotkey-mnemonic", f.password),
                                     backedUp |-> FALSE])
    /\ unlockedHotkeys' = unlockedHotkeys \cup {f.hid}
    /\ keyFlows' = keyFlows \ {f}
    /\ lastOp' = Op("createHotkey", f.hid, "created", "")
    /\ UNCHANGED <<storeVars, lockState, unlockedWallets, lockTimeout, unlockAttempts,
                   nextUuid, now, lastUnlock, api, txs, connVars, popupVars, cryptoVars, hotkeyFailures, brokerVars>>

\* deleteWallet: getWalletStore() is issued
deleteWalletBegin(walletId) ==
    /\ Cardinality(keyFlows) < MaxKeyFlows
    /\ keyFlows' = keyFlows \cup
          {Flow("deleteWallet", "filter", walletId, 0, "", "", NoWallet,
                WalletStoreNow, <<>>)}
    /\ lastOp' = Awaiting
    /\ UNCHANGED <<storeVars, hotkeys, sessionVars, unlockAttempts, nextUuid, now,
                   lastUnlock, api, txs, connVars, popupVars, cryptoVars, hotkeyFailures, brokerVars>>

\* the coldkey is filtered out of the copy, its pair dropped from the
\* session, the active id moved, and the copy saved
deleteWalletSave(f) ==
    LET kept == SelectSeq(f.store.wallets, LAMBDA w : w.id /= f.id) IN
    /\ f \in keyFlows /\ f.op = "deleteWallet" /\ f.pc = "filter"
    /\ saveWalletStore([f.store EXCEPT
           !.wallets = kept,
           !.activeWalletId = IF @ = f.id
                              THEN (IF Len(kept) > 0 THEN kept[1].id ELSE 0)
                              ELSE @])
    /\ unlockedWallets' = MapDelete(unlockedWallets, f.id)
    /\ keyFlows' = Suspend(f, [f EXCEPT !.pc = "read"])
    /\ lastOp' = Awaiting
    /\ UNCHANGED <<hotkeys, lockState, unlockedHotkeys, lockTimeout, unlockAttempts,
                   nextUuid, now, lastUnlock, api, txs, connVars, popupVars, cryptoVars, hotkeyFailures, brokerVars>>

\* after the save: getHotkeyStore() is issued
deleteWalletRead(f) ==
    /\ f \in keyFlows /\ f.op = "deleteWallet" /\ f.pc = "read"
    /\ keyFlows' = Suspend(f, [f EXCEPT !.pc = "cascade", !.hotkeys = hotkeys])
    /\ lastOp' = Awaiting
    /\ UNCHANGED <<storeVars, hotkeys, sessionVars, unlockAttempts, nextUuid, now,
                   lastUnlock, api, txs, connVars, popupVars, cryptoVars, hotkeyFailures, brokerVars>>

\* the copy of the hotkey store is filtered and saved
deleteWalletCascade(f) ==
    /\ f \in keyFlows /\ f.op = "deleteWallet" /\ f.pc = "cascade"
    /\ hotkeys' = HotkeysWithout(f.hotkeys, f.id)
    /\ keyFlows' = keyFlows \ {f}
    /\ lastOp' = Op("deleteWallet", f.id, "", "")
    /\ UNCHANGED <<storeVars, sessionVars, unlockAttempts, nextUuid, now, lastUnlock,
                   api, txs, connVars, popupVars, cryptoVars, hotkeyFailures, brokerVars>>

\* changePassword: getWalletStore() is issued
changePasswordBegin(walletId, currentPassword, newPassword) ==
    /\ Cardinality(keyFlows) < MaxKeyFlows
    /\ keyFlows' = keyFlows \cup
          {Flow("changePassword", "decrypt", walletId, 0, currentPassword, newPassword,
                NoWallet, WalletStoreNow, <<>>)}
    /\ lastOp' = Awaiting
    /\ UNCHANGED <<storeVars, hotkeys, sessionVars, unlockAttempts, nextUuid, now,
                   lastUnlock, api, txs, connVars, popupVars, cryptoVars, hotkeyFailures, brokerVars>>

\* the coldkey is looked up in the copy, decrypted, re-encrypted and the
\* copy saved
changePasswordSave(f) ==
    LET found == \E w \in Range(f.store.wallets) : w.id = f.id
        wallet == CHOOSE w \in Range(f.store.wallets) : w.id = f.id
    IN
    /\ f \in keyFlows /\ f.op = "changePassword" /\ f.pc = "decrypt"
    /\ IF ~found \/ wallet.type \in {"watch", "multisig"}
          \/ ~CanDecrypt(wallet.encrypted, f.password)
       THEN /\ keyFlows' = keyFlows \ {f}
            /\ lastOp' = ChangeOp(f.id,
                            IF ~found THEN "not_found"
                            ELSE IF wallet.type \in {"watch", "multisig"} THEN "unsupported"
                            ELSE "incorrect",
                            f.password, f.new, {})
            /\ UNCHANGED storeVars
       ELSE /\ saveWalletStore([f.store EXCEPT !.wallets =
                  [i \in 1..Len(@) |->
                     IF @[i].id = f.id
                     THEN [@[i] EXCEPT !.encrypted =
                              encrypt(decrypt(wallet.encrypted, f.password), f.new)]
                     ELSE @[i]]])
            /\ keyFlows' = Suspend(f, [f EXCEPT !.pc = "read"])
            /\ lastOp' = Awaiting
    /\ UNCHANGED <<hotkeys, sessionVars, unlockAttempts, nextUuid, now, lastUnlock,
                   api, txs, connVars, popupVars, cryptoVars, hotkeyFailures, brokerVars>>

\* after the save: getHotkeyStore() is issued
changePasswordRead(f) ==
    /\ f \in keyFlows /\ f.op = "changePassword" /\ f.pc = "read"
    /\ keyFlows' = Suspend(f, [f EXCEPT !.pc = "hotkeys", !.hotkeys = hotkeys])
    /\ lastOp' = Awaiting
    /\ UNCHANGED <<storeVars, hotkeys, sessionVars, unlockAttempts, nextUuid, now,
                   lastUnlock, api, txs, connVars, popupVars, cryptoVars, hotkeyFailures, brokerVars>>

\* the hotkeys of the coldkey that decrypt are re-encrypted in the copy and
\* the copy is saved
changePasswordHotkeys(f) ==
    /\ f \in keyFlows /\ f.op = "changePassword" /\ f.pc = "hotkeys"
    /\ hotkeys' = ReEncryptHotkeys(f.hotkeys, f.id, f.password, f.new)
    /\ keyFlows' = keyFlows \ {f}
    /\ lastOp' = ChangeOp(f.id, "changed", f.password, f.new,
                          SkippedHotkeys(f.hotkeys, f.id, f.password))
    /\ UNCHANGED <<storeVars, sessionVars, unlockAttempts, nextUuid, now, lastUnlock,
                   api, txs, connVars, popupVars, cryptoVars, hotkeyFailures, brokerVars>>

\* ------------------------------------------ connection manager, await by await

\* the connection manager's fields as one record, so that the synchronous
\* stretch of a call can be composed from the methods it runs through
ConnNow ==
    [api |-> api, apiLink |-> apiLink, provider |-> provider, links |-> links,
     currentNetwork |-> currentNetwork, currentUrl |-> currentUrl,
     isConnecting |-> isConnecting,
     reconnectAttempts |-> reconnectAttempts, reconnectTimers |-> reconnectTimers,
     connFlows |-> connFlows, connCalls |-> connCalls, notified |-> "none",
     told |-> told,
     failures |-> failures, disconnected |-> disconnected, result |-> Awaiting,
     ok |-> TRUE]

\* the fields after the stretch, and what the call returned if it returned
Commit(s) ==
    /\ s.ok
    /\ api' = s.api
    /\ apiLink' = s.apiLink
    /\ provider' = s.provider
    /\ links' = s.links
    /\ currentNetwork' = s.currentNetwork
    /\ currentUrl' = s.currentUrl
    /\ isConnecting' = s.isConnecting
    /\ reconnectAttempts' = s.reconnectAttempts
    /\ reconnectTimers' = s.reconnectTimers
    /\ connFlows' = s.connFlows
    /\ connCalls' = s.connCalls
    /\ notified' = s.notified
    /\ told' = s.told
    /\ failures' = s.failures
    /\ disconnected' = s.disconnected
    /\ lastOp' = s.result
    /\ UNCHANGED <<storeVars, hotkeys, sessionVars, unlockAttempts, nextUuid, now,
                   lastUnlock, txs, keyFlows, brokerVars, popupVars, cryptoVars, hotkeyFailures>>

\* this.api?.isConnected ?? false
IsConnectedIn(s) ==
    /\ s.api /= "none"
    /\ s.apiLink \in DOMAIN s.links
    /\ s.links[s.apiLink].status = "open"

isConnected == IsConnectedIn(ConnNow)

\* the state Connected: a ready api on an open link, no connect in flight
ConnectedState == isConnected /\ ~isConnecting

\* the links that are open or being opened
LiveLinks == {l \in DOMAIN links : links[l].status \in {"opening", "open"}}

Without(f, l) == [x \in DOMAIN f \ {l} |-> f[x]]

\* api.disconnect() / provider.disconnect() on a link: the socket is closed;
\* a link with a 'disconnected' listener still has that event to deliver
CloseLink(s, l) ==
    IF l \notin DOMAIN s.links THEN s
    ELSE IF s.links[l].handler
    THEN [s EXCEPT !.links = [@ EXCEPT ![l].status = "closing"]]
    ELSE [s EXCEPT !.links = Without(@, l)]

\* mutant: the delay grows with the square of the attempt number
ReconnectDelaySquared(attempt) == ReconnectStep * attempt * attempt

\* Math.min(2000 * this.reconnectAttempts, 30000)
ReconnectDelay(attempt) == Min(ReconnectStep * attempt, ReconnectCeiling)

\* ConnectionManager.handleDisconnect(): the callback is told false; below the maximum and
\* with a current network, the counter is incremented and a reconnect timer
\* is set
handleLinkDisconnect(s) ==
    LET t == [s EXCEPT !.notified = "false", !.told = FALSE] IN
    IF t.reconnectAttempts < maxReconnectAttempts /\ t.currentNetwork /= ""
    THEN [t EXCEPT !.reconnectAttempts = @ + 1,
                   !.reconnectTimers = @ \cup {ReconnectDelay(t.reconnectAttempts + 1)}]
    ELSE t

ConnFlow(op, pc, network, url, link, auto) ==
    [op |-> op, pc |-> pc, network |-> network, url |-> url, link |-> link, auto |-> auto]

ConnOp(f, result) == Op(IF f.auto THEN "reconnect" ELSE f.op, 0, result, "")

\* a link id that nothing refers to
UsedLinks(s) ==
    DOMAIN s.links \cup {s.provider, s.apiLink} \cup {f.link : f \in s.connFlows}

HasFreshLink(s) == \E l \in 1..MaxLinks : l \notin UsedLinks(s)

FreshLink(s) == CHOOSE l \in 1..MaxLinks :
                   /\ l \notin UsedLinks(s)
                   /\ \A k \in 1..MaxLinks : k \notin UsedLinks(s) => l <= k

\* mutant: the fields are set to null and the links are left open
disconnectInternalLeavingLinks(s) ==
    [s EXCEPT !.api = "none", !.apiLink = 0, !.provider = 0]

\* disconnectInternal(): the api's link and the provider are closed and both
\* fields set to null. api.disconnect() and provider.disconnect() close the
\* socket and settle without waiting for it, so the caller continues before
\* any message, timer or socket event is handled.
disconnectInternal(s) ==
    [CloseLink(CloseLink(s, s.apiLink), s.provider)
        EXCEPT !.api = "none", !.apiLink = 0, !.provider = 0]

\* connect's catch block: the teardown, isConnecting cleared, the network
\* recorded, handleDisconnect() called and false returned
ConnectCatch(s, f) ==
    [handleLinkDisconnect([disconnectInternal(s) EXCEPT !.isConnecting = FALSE,
                                                       !.currentNetwork = f.network,
                                                       !.currentUrl = f.url])
        EXCEPT !.failures = Min(s.failures + 1, maxReconnectAttempts + 1),
               !.result = ConnOp(f, "false")]

Drop(s, f) == [s EXCEPT !.connFlows = @ \ {f}]

\* networkId === 'custom' || networkId.startsWith('custom_')
IsCustomId(networkId) == networkId \in CustomIds

\* the url of the network connect resolves from its arguments, "" when there
\* is none: the custom url for a custom id, else the built-in network's
ResolveUrl(networkId, customUrl) ==
    IF IsCustomId(networkId) /\ customUrl /= "" THEN customUrl
    ELSE IF networkId \in DOMAIN NETWORKS THEN NETWORKS[networkId]
    ELSE ""

\* mutant: connect tears down and reopens also when connected to that network
ConnectCallReopening(s, networkId, customUrl, auto) ==
    IF s.isConnecting THEN [s EXCEPT !.result = Op(IF auto THEN "reconnect" ELSE "connect",
                                                     0, "in_flight", "")]
    ELSE IF ResolveUrl(networkId, customUrl) = ""
    THEN [s EXCEPT !.result = Op(IF auto THEN "reconnect" ELSE "connect",
                                 0, "unknown_network", "")]
    ELSE LET t == disconnectInternal([s EXCEPT !.isConnecting = TRUE]) IN
         IF ~HasFreshLink(t) THEN [t EXCEPT !.ok = FALSE]
         ELSE [t EXCEPT !.links = (FreshLink(t) :> [status |-> "opening",
                                                    handler |-> FALSE,
                                                    url |-> ResolveUrl(networkId, customUrl)])
                                     @@ @,
                        !.connFlows = @ \cup {ConnFlow("connect", "handshake", networkId,
                                                       ResolveUrl(networkId, customUrl),
                                                       FreshLink(t), auto)}]

\* connect(networkId, customUrl) up to its first suspension: refused while a
\* connect is in flight, an error for an id that resolves to no network, a
\* no-op when connected to a network of that id, otherwise the teardown, a
\* new WsProvider on the network's url and provider.connect()
ConnectCall(s, networkId, customUrl, auto) ==
    IF s.isConnecting THEN [s EXCEPT !.result = Op(IF auto THEN "reconnect" ELSE "connect",
                                                     0, "in_flight", "")]
    ELSE IF ResolveUrl(networkId, customUrl) = ""
    THEN [s EXCEPT !.result = Op(IF auto THEN "reconnect" ELSE "connect",
                                 0, "unknown_network", "")]
    ELSE IF IsConnectedIn(s) /\ s.currentNetwork = networkId
    THEN [s EXCEPT !.result = Op(IF auto THEN "reconnect" ELSE "connect", 0, "true", "")]
    ELSE LET t == disconnectInternal([s EXCEPT !.isConnecting = TRUE]) IN
         IF ~HasFreshLink(t) THEN [t EXCEPT !.ok = FALSE]
         ELSE [t EXCEPT !.links = (FreshLink(t) :> [status |-> "opening",
                                                    handler |-> FALSE,
                                                    url |-> ResolveUrl(networkId, customUrl)])
                                     @@ @,
                        !.connFlows = @ \cup {ConnFlow("connect", "handshake", networkId,
                                                       ResolveUrl(networkId, customUrl),
                                                       FreshLink(t), auto)}]

\* an explicit connect(networkId, customUrl); customUrl is "" when left out
connectBegin(networkId, customUrl) ==
    /\ connCalls < MaxConnCalls
    /\ Commit(ConnectCall([ConnNow EXCEPT !.failures = 0, !.connCalls = @ + 1,
                                          !.disconnected = FALSE],
                          networkId, customUrl, FALSE))

\* a reconnect timer fires: connect(this.currentNetwork!.id), whose error
\* with a null network, or with an id that resolves to no network, is caught
reconnectTimerFires(delay) ==
    /\ delay \in reconnectTimers
    /\ LET s == [ConnNow EXCEPT !.reconnectTimers = @ \ {delay}] IN
       IF currentNetwork = ""
       THEN Commit([s EXCEPT !.result = Op("reconnect", 0, "error", "")])
       ELSE Commit(ConnectCall(s, currentNetwork, "", TRUE))

\* an explicit disconnect(): the teardown, then the network and the counter
\* are cleared
disconnectCall ==
    /\ connCalls < MaxConnCalls
    /\ Commit([disconnectInternal(ConnNow) EXCEPT !.connCalls = @ + 1,
                                                  !.disconnected = TRUE,
                                                  !.currentNetwork = "",
                                                  !.currentUrl = "",
                                                  !.reconnectAttempts = 0,
                                                  !.result = Op("disconnect", 0, "", "")])

\* the provider reports 'connected': it becomes this.provider, the
\* 'disconnected' listener is registered and ApiPromise.create is issued
linkConnected(f) ==
    /\ f \in connFlows /\ f.pc = "handshake"
    /\ f.link \in DOMAIN links /\ links[f.link].status = "opening"
    /\ Commit([Drop(ConnNow, f) EXCEPT
                  !.links = [@ EXCEPT ![f.link] = [@ EXCEPT !.status = "open",
                                                            !.handler = TRUE]],
                  !.provider = f.link,
                  !.connFlows = @ \cup {[f EXCEPT !.pc = "create"]}])

\* the provider reports an error or the connection timeout closes it
handshakeFails(f) ==
    /\ f \in connFlows /\ f.pc = "handshake"
    /\ LET s == Drop(ConnNow, f) IN
       Commit(ConnectCatch([s EXCEPT !.links = Without(@, f.link)], f))

\* ApiPromise.create resolves on the open link: this.api is set and
\* isReady is awaited
apiCreated(f) ==
    /\ f \in connFlows /\ f.pc = "create"
    /\ f.link \in DOMAIN links /\ links[f.link].status = "open"
    /\ Commit([Drop(ConnNow, f) EXCEPT !.api = "up", !.apiLink = f.link,
                                       !.connFlows = @ \cup {[f EXCEPT !.pc = "ready"]}])

\* ApiPromise.create or isReady rejects or times out
apiFails(f) ==
    /\ f \in connFlows /\ f.pc \in {"create", "ready"}
    /\ Commit(ConnectCatch(Drop(ConnNow, f), f))

\* isReady resolves: the network is recorded, the counter and the flag are
\* cleared, the callback is told true and true is returned
apiReady(f) ==
    /\ f \in connFlows /\ f.pc = "ready"
    /\ f.link \in DOMAIN links /\ links[f.link].status = "open"
    /\ Commit([Drop(ConnNow, f) EXCEPT !.currentNetwork = f.network,
                                       !.currentUrl = f.url,
                                       !.reconnectAttempts = 0,
                                       !.isConnecting = FALSE,
                                       !.notified = "true", !.told = TRUE,
                                       !.failures = 0,
                                       !.result = ConnOp(f, "true")])

\* a provider delivers 'disconnected' to the listener registered by connect:
\* the link was lost, or it was closed and the socket has now closed
onDisconnected(l) ==
    /\ l \in DOMAIN links /\ links[l].handler
    /\ Commit([handleLinkDisconnect([ConnNow EXCEPT !.links = Without(@, l)])
                  EXCEPT !.result = Op("disconnected", 0, "", "")])

\* the queries whose body is in a try block that answers a failure of the
\* request with an empty result
QueriesWithDefault == {"getStakeInfo", "getAllNeuronetsInfo", "getNeuronetHotkeys",
                       "getNeuronetPrice"}

\* a chain query: a null api throws 'Not connected'; otherwise the request
\* goes to the api, which sends it on its link, or fails it when the link is
\* gone, and then the query's catch block, if it has one, returns the default
query(q) ==
    Commit([ConnNow EXCEPT !.notified = notified,
               !.result = IF api = "none" THEN Op(q, 0, "not_connected", "")
                          ELSE IF isConnected THEN Op(q, apiLink, "requested", "")
                          ELSE IF q \in QueriesWithDefault THEN Op(q, 0, "default", "")
                          ELSE Op(q, 0, "request_failed", "")])

\* getTransferFee: a null api throws 'Not connected'; otherwise the fee of
\* the dry run, or the fixed estimate when the dry run fails
getTransferFee(dryRunOk) ==
    Commit([ConnNow EXCEPT !.notified = notified,
               !.result = IF api = "none" THEN Op("getTransferFee", 0, "throw", "")
                          ELSE IF dryRunOk /\ isConnected
                          THEN Op("getTransferFee", 0, "partialFee", "")
                          ELSE Op("getTransferFee", FallbackFee, "fallback", "")])

\* ------------------------------------ outbound transactions, await by await

TxOps == {"transfer", "addStake", "removeStake", "moveStake", "addStakeLimit"}

\* what the chain reports about a submitted transaction
ChainStatuses == {"broadcast", "inBlock", "finalized", "dropped", "invalid", "usurped"}

\* the statuses after which the node reports nothing more about a
\* transaction that is in no block
EndStatuses == {"dropped", "invalid", "usurped"}
DispatchErrors == {"none", "module", "other"}

\* what a transaction call hands to its caller: a thrown error (raised) or
\* { success, hash?, error? }; chain and dispatch record what the chain had
\* reported about the transaction when the result was given
TxOp(op, raised, success, hash, error, chain, dispatch) ==
    [op |-> op, id |-> 0, result |-> IF raised THEN "throw" ELSE "result", signer |-> "",
     origin |-> "", method |-> "", accounts |-> {},
     raised |-> raised, success |-> success, hash |-> hash, error |-> error,
     chain |-> chain, dispatch |-> dispatch]

\* catch (error) { return { success: false, error: error.message } }
TxFailed(f, error) == TxOp(f.op, FALSE, FALSE, "", error, f.chain, "none")

\* connect / disconnect run to the end with nothing in between: a connect
\* to "n1" that succeeds, and a disconnect
connect ==
    /\ ~isConnecting /\ connFlows = {} /\ ~isConnected
    /\ LET s == [ConnNow EXCEPT !.links = [l \in DOMAIN @ \ {apiLink, provider} |-> @[l]],
                                !.api = "none", !.apiLink = 0, !.provider = 0] IN
       /\ HasFreshLink(s)
       /\ Commit([s EXCEPT !.links = (FreshLink(s) :> [status |-> "open", handler |-> TRUE,
                                                       url |-> NETWORKS["n1"]]) @@ @,
                           !.provider = FreshLink(s),
                           !.api = "up", !.apiLink = FreshLink(s),
                           !.currentNetwork = "n1", !.currentUrl = NETWORKS["n1"],
                           !.reconnectAttempts = 0,
                           !.notified = "true", !.told = TRUE, !.failures = 0,
                           !.disconnected = FALSE,
                           !.result = Op("connect", 0, "true", "")])

disconnect ==
    /\ connFlows = {}
    /\ Commit([ConnNow EXCEPT !.links = [l \in DOMAIN @ \ {apiLink, provider} |-> @[l]],
                              !.api = "none", !.apiLink = 0, !.provider = 0,
                              !.currentNetwork = "", !.currentUrl = "",
                              !.reconnectAttempts = 0,
                              !.disconnected = TRUE,
                              !.result = Op("disconnect", 0, "", "")])

\* transfer / addStake / removeStake / moveStake / addStakeLimit up to the
\* first await. A null api throws before the try. The stake extrinsic may be
\* missing on the network: a throw inside the try; addStakeLimit without the
\* limit extrinsic returns addStake's result. The nonce fetch is issued.
txBegin(op, limitAvailable, available) ==
    LET mode == IF op = "addStakeLimit" /\ limitAvailable THEN "send" ELSE "wait" IN
    /\ IF api = "none"
       THEN /\ lastOp' = TxOp(op, TRUE, FALSE, "", "Not connected", "none", "none")
            /\ UNCHANGED txs
       ELSE IF mode = "wait" /\ op /= "transfer" /\ ~available
       THEN /\ lastOp' = TxOp(op, FALSE, FALSE, "", "not available", "none", "none")
            /\ UNCHANGED txs
       ELSE /\ Cardinality(txs) < MaxTxs
            /\ txs' = txs \cup {[op |-> op, pc |-> "nonce", mode |-> mode,
                                 chain |-> "none"]}
            /\ lastOp' = Awaiting
    /\ UNCHANGED <<storeVars, hotkeys, sessionVars, unlockAttempts, nextUuid, now,
                   lastUnlock, api, connVars, popupVars, cryptoVars, hotkeyFailures, keyFlows, brokerVars>>

\* accountNextIndex settles: a rejection, or a null api under
\* this.api.registry, is caught; otherwise the payload is built and
\* signer.sign is issued
txNonce(f, ok) ==
    /\ f \in txs /\ f.pc = "nonce"
    /\ IF ~ok \/ api = "none"
       THEN /\ txs' = txs \ {f}
            /\ lastOp' = TxFailed(f, "nonce")
       ELSE /\ txs' = (txs \ {f}) \cup {[f EXCEPT !.pc = "sign"]}
            /\ lastOp' = Awaiting
    /\ UNCHANGED <<storeVars, hotkeys, sessionVars, unlockAttempts, nextUuid, now,
                   lastUnlock, api, connVars, popupVars, cryptoVars, hotkeyFailures, keyFlows, brokerVars>>

\* signer.sign settles: a rejection is caught; otherwise the signature is
\* added and the transaction is sent
txSign(f, ok) ==
    /\ f \in txs /\ f.pc = "sign"
    /\ IF ~ok
       THEN /\ txs' = txs \ {f}
            /\ lastOp' = TxFailed(f, "sign")
       ELSE /\ txs' = (txs \ {f}) \cup {[f EXCEPT !.pc = "sent"]}
            /\ lastOp' = Awaiting
    /\ UNCHANGED <<storeVars, hotkeys, sessionVars, unlockAttempts, nextUuid, now,
                   lastUnlock, api, connVars, popupVars, cryptoVars, hotkeyFailures, keyFlows, brokerVars>>

\* tx.send rejects: submitAndWaitForBlock's catch resolves a failure, and
\* addStakeLimit's await throws into its catch
txSendFails(f) ==
    /\ f \in txs /\ f.pc = "sent"
    /\ txs' = txs \ {f}
    /\ lastOp' = TxFailed(f, "send")
    /\ UNCHANGED <<storeVars, hotkeys, sessionVars, unlockAttempts, nextUuid, now,
                   lastUnlock, api, connVars, popupVars, cryptoVars, hotkeyFailures, keyFlows, brokerVars>>

\* submitAndWaitForBlock's status callback: a status that is neither
\* in-block nor finalized is ignored; in a block, a dispatch error resolves
\* a failure, decoded when it is a module error and the api is there, and
\* no dispatch error resolves success with the hash
submitAndWaitForBlock(f, status, dispatchError) ==
    /\ f \in txs /\ f.pc = "sent" /\ f.mode = "wait"
    /\ f.chain \notin EndStatuses
    /\ IF status \notin {"inBlock", "finalized"}
       THEN /\ txs' = (txs \ {f}) \cup {[f EXCEPT !.chain = status]}
            /\ lastOp' = Awaiting
       ELSE /\ txs' = txs \ {f}
            /\ lastOp' =
                 IF dispatchError /= "none"
                 THEN TxOp(f.op, FALSE, FALSE, "",
                           IF dispatchError = "module" /\ api /= "none"
                           THEN "decoded" ELSE "toString",
                           status, dispatchError)
                 ELSE TxOp(f.op, FALSE, TRUE, "hash", "", status, "none")
    /\ UNCHANGED <<storeVars, hotkeys, sessionVars, unlockAttempts, nextUuid, now,
                   lastUnlock, api, connVars, popupVars, cryptoVars, hotkeyFailures, keyFlows, brokerVars>>

\* addStakeLimit: await tx.send() resolves with the hash as soon as the node
\* has accepted the transaction; success is returned without a status
txSendReturns(f) ==
    /\ f \in txs /\ f.pc = "sent" /\ f.mode = "send"
    /\ txs' = txs \ {f}
    /\ lastOp' = TxOp(f.op, FALSE, TRUE, "hash", "", f.chain, "none")
    /\ UNCHANGED <<storeVars, hotkeys, sessionVars, unlockAttempts, nextUuid, now,
                   lastUnlock, api, connVars, popupVars, cryptoVars, hotkeyFailures, keyFlows, brokerVars>>

\* ------------------------------------------- permission and approval broker

\* permissions[origin]?.connected
Connected(origin) == origin \in DOMAIN permissions /\ permissions[origin].connected

\* every address of the vault, listed in the grant or not
AllowedAccountsUnfiltered(origin) == {w.address : w \in Range(wallets)}

\* wallets.filter(w => allowedAddresses.includes(w.address)).map(w => w.address)
AllowedAccounts(origin) ==
    {w.address : w \in Range(wallets)} \cap permissions[origin].accounts

\* openApprovalPopup(method, origin): what it leaves in chrome.storage.session
openApprovalPopup(method, origin) == {[method |-> method, origin |-> origin]}

\* handleConnect(origin); openPopup() may reject (popupOpens is FALSE)
handleConnect(origin, popupOpens) ==
    /\ IF Connected(origin)
       THEN /\ lastOp' = DappOp("connect", origin, "", 0, "ok", "", AllowedAccounts(origin))
            /\ UNCHANGED pendingDappRequest
       ELSE /\ pendingDappRequest' = openApprovalPopup("connect", origin)
            /\ lastOp' = DappOp("connect", origin, "", 0,
                                IF popupOpens THEN "ok" ELSE "popup_failed", "", {})
    /\ UNCHANGED <<keyVars, permVars, approvalVars>>

\* handleGetAccounts(origin)
handleGetAccounts(origin) ==
    /\ lastOp' = DappOp("getAccounts", origin, "", 0, "ok", "",
                        IF Connected(origin) THEN AllowedAccounts(origin) ELSE {})
    /\ UNCHANGED <<keyVars, brokerVars>>

\* permissions[origin] = {connected: true, accounts, connectedAt}
WithGrant(perms, origin, accounts) ==
    MapSet(perms, origin, [connected |-> TRUE, accounts |-> accounts])

\* delete permissions[origin]
WithoutGrant(perms, origin) == MapDelete(perms, origin)

\* a grantPermission(origin, ...) call is suspended before its save
GrantInFlight(origin) ==
    \E f \in permFlows : f.op = "grantPermission" /\ f.origin = origin

\* grantPermission(origin, accounts) with nothing else running between its
\* getPermissions and its savePermissions
grantPermission(origin, accounts) ==
    /\ permFlows = {}
    /\ permissions' = WithGrant(permissions, origin, accounts)
    /\ revoked' = revoked \ {origin}
    /\ lastOp' = DappOp("grantPermission", origin, "", 0, "", "", accounts)
    /\ UNCHANGED <<keyVars, permFlows, pendingDappRequest, approvalVars>>

\* revokePermission(origin), likewise uninterrupted
revokePermission(origin) ==
    /\ permFlows = {}
    /\ permissions' = WithoutGrant(permissions, origin)
    /\ revoked' = revoked \cup {origin}
    /\ lastOp' = DappOp("revokePermission", origin, "", 0, "", "", {})
    /\ UNCHANGED <<keyVars, permFlows, pendingDappRequest, approvalVars>>

\* handleDisconnect(origin), likewise uninterrupted
handleDisconnect(origin) ==
    /\ permFlows = {}
    /\ permissions' = IF origin \in DOMAIN permissions
                      THEN WithoutGrant(permissions, origin) ELSE permissions
    /\ revoked' = revoked \cup {origin}
    /\ lastOp' = DappOp("disconnect", origin, "", 0, "", "", {})
    /\ UNCHANGED <<keyVars, permFlows, pendingDappRequest, approvalVars>>

\* grantPermission / revokePermission / handleDisconnect up to the point
\* where getPermissions() has returned: the call holds its own copy of the
\* whole permission map.  handleDisconnect returns at once when the copy has
\* no entry for the origin.
getPermissions(op, origin, accounts) ==
    /\ Cardinality(permFlows) < MaxFlows
    /\ IF op = "disconnect" /\ origin \notin DOMAIN permissions
       THEN /\ revoked' = IF GrantInFlight(origin) THEN revoked
                          ELSE revoked \cup {origin}
            /\ UNCHANGED permFlows
       ELSE /\ permFlows' = permFlows \cup
                   {[op |-> op, origin |-> origin, accounts |-> accounts,
                     permissions |-> permissions]}
            /\ revoked' = IF op = "grantPermission" THEN revoked \ {origin}
                          ELSE revoked
    /\ lastOp' = DappOp(op, origin, "", 0, "read", "", accounts)
    /\ UNCHANGED <<keyVars, permissions, pendingDappRequest, approvalVars>>

\* the rest of the call: its copy, modified, replaces the stored map
savePermissions(f) ==
    /\ f \in permFlows
    /\ permissions' = IF f.op = "grantPermission"
                      THEN WithGrant(f.permissions, f.origin, f.accounts)
                      ELSE WithoutGrant(f.permissions, f.origin)
    /\ permFlows' = permFlows \ {f}
    /\ revoked' = IF f.op = "grantPermission" \/ GrantInFlight(f.origin)
                  THEN revoked ELSE revoked \cup {f.origin}
    /\ lastOp' = DappOp(f.op, f.origin, "", 0, "saved", "", f.accounts)
    /\ UNCHANGED <<keyVars, pendingDappRequest, approvalVars>>

\* the pending call is answered "ok" although the origin merely holds a grant
requestApprovalUnlessGranted(origin, method) ==
    /\ Len(calls) < MaxCalls
    /\ calls' = Append(calls, [origin |-> origin, method |-> method,
                               status |-> IF Connected(origin) THEN "ok" ELSE "opening"])
    /\ pendingDappRequest' = openApprovalPopup(method, origin)
    /\ lastOp' = DappOp("requestApproval", origin, method, Len(calls) + 1, "", "", {})
    /\ UNCHANGED <<keyVars, permVars, pendingApprovals, nextApprovalId,
                   approvalTimers, approvalLog>>

\* handleRequest for a sensitive method: requestApproval(origin, method, ...)
\* up to the await of openApprovalPopup
requestApproval(origin, method) ==
    /\ Len(calls) < MaxCalls
    /\ calls' = Append(calls, [origin |-> origin, method |-> method,
                               status |-> "opening"])
    /\ pendingDappRequest' = openApprovalPopup(method, origin)
    /\ lastOp' = DappOp("requestApproval", origin, method, Len(calls) + 1, "", "", {})
    /\ UNCHANGED <<keyVars, permVars, pendingApprovals, nextApprovalId,
                   approvalTimers, approvalLog>>

\* requestApproval after the await: openPopup() rejected and the call fails,
\* or the approval is registered under the next id and its timer is started
registerApproval(c, popupOpens) ==
    /\ c \in DOMAIN calls
    /\ calls[c].status = "opening"
    /\ IF ~popupOpens
       THEN /\ calls' = [calls EXCEPT ![c].status = "error_popup"]
            /\ lastOp' = DappOp("registerApproval", calls[c].origin, calls[c].method,
                                0, "popup_failed", "", {})
            /\ UNCHANGED <<pendingApprovals, nextApprovalId, approvalTimers, approvalLog>>
       ELSE LET id == nextApprovalId IN
            /\ pendingApprovals' = MapSet(pendingApprovals, id,
                   [id |-> id, origin |-> calls[c].origin,
                    method |-> calls[c].method, call |-> c])
            /\ nextApprovalId' = id + 1
            /\ approvalTimers' = approvalTimers \cup
                   {[id |-> id, deadline |-> now + ApprovalTimeout]}
            /\ calls' = [calls EXCEPT ![c].status = "waiting"]
            /\ approvalLog' = Append(approvalLog,
                   [call |-> c, at |-> now, how |-> "none", count |-> 0])
            /\ lastOp' = DappOp("registerApproval", calls[c].origin, calls[c].method,
                                id, "registered", "", {})
    /\ UNCHANGED <<keyVars, permVars, pendingDappRequest>>

\* pending.resolve / pending.reject: a promise is settled by the first call
Settle(c, status) ==
    IF calls[c].status = "waiting" THEN [calls EXCEPT ![c].status = status]
    ELSE calls

\* one more resolve/reject invocation for the approval
Logged(approvalId, how) ==
    [approvalLog EXCEPT ![approvalId].count = @ + 1,
                        ![approvalId].how = IF @ = "none" THEN how ELSE @]

\* the entry stays in the map after it was settled
ForgetNothing(approvalId) == pendingApprovals

\* this.pendingApprovals.delete(id)
Forget(approvalId) == MapDelete(pendingApprovals, approvalId)

\* resolveApproval(approvalId, approved)
resolveApproval(approvalId, approved) ==
    /\ IF approvalId \notin DOMAIN pendingApprovals
       THEN /\ lastOp' = DappOp("resolveApproval", "", "", approvalId, "noop", "", {})
            /\ UNCHANGED <<pendingApprovals, calls, approvalLog>>
       ELSE LET pending == pendingApprovals[approvalId]
                how == IF approved THEN "approved" ELSE "rejected"
            IN
            /\ pendingApprovals' = Forget(approvalId)
            /\ calls' = Settle(pending.call, IF approved THEN "ok" ELSE "error_rejected")
            /\ approvalLog' = Logged(approvalId, how)
            /\ lastOp' = DappOp("resolveApproval", pending.origin, pending.method,
                                approvalId, how, "", {})
    /\ UNCHANGED <<keyVars, permVars, pendingDappRequest, nextApprovalId, approvalTimers>>

\* the setTimeout callback of requestApproval, five minutes after registration
approvalTimeout(t) ==
    /\ t \in approvalTimers
    /\ t.deadline <= now
    /\ approvalTimers' = approvalTimers \ {t}
    /\ IF t.id \notin DOMAIN pendingApprovals
       THEN /\ lastOp' = DappOp("approvalTimeout", "", "", t.id, "noop", "", {})
            /\ UNCHANGED <<pendingApprovals, calls, approvalLog>>
       ELSE LET pending == pendingApprovals[t.id] IN
            /\ calls' = Settle(pending.call, "error_timeout")
            /\ approvalLog' = Logged(t.id, "timeout")
            /\ pendingApprovals' = Forget(t.id)
            /\ lastOp' = DappOp("approvalTimeout", pending.origin, pending.method,
                                t.id, "timeout", "", {})
    /\ UNCHANGED <<keyVars, permVars, pendingDappRequest, nextApprovalId>>

\* the three checks are passed although the origin holds no grant
ExecutionErrorIgnoringGrant(origin) ==
    IF ~HasActiveWallet THEN "no_active"
    ELSE IF ~isUnlocked(activeWalletId) THEN "locked"
    ELSE ""

\* executeApprovedAction: the error of the first check that fails, "" if none
ExecutionError(origin) ==
    IF ~Connected(origin) THEN "no_grant"
    ELSE IF ~HasActiveWallet THEN "no_active"
    ELSE IF ~isUnlocked(activeWalletId) THEN "locked"
    ELSE ""

\* executeApprovedAction(method, origin, params)
executeApprovedAction(method, origin, outcome) ==
    LET id == activeWalletId
        error == ExecutionError(origin)
        tx == TxResult(method, id, unlockedWallets[id], outcome)
    IN
    /\ lastOp' =
         IF error /= ""
         THEN DappOp("executeApprovedAction", origin, method, 0, error, "", {})
         ELSE IF method = "signMessage"
         THEN DappOp("executeApprovedAction", origin, method, id, "signed",
                     unlockedWallets[id], {})
         ELSE IF method \in {"sendTransaction", "addStake", "removeStake"}
         THEN DappOp("executeApprovedAction", origin, method, id, tx.result,
                     tx.signer, {})
         ELSE DappOp("executeApprovedAction", origin, method, id, "unknown_method", "", {})
    /\ UNCHANGED <<keyVars, brokerVars>>

\* ----------------------------------------------------------- specifications

Uuids == 1..MaxUuid

\* creation and import requests, with passwords drawn from pws
CreateOps(pws, ms) ==
    \/ \E pw \in pws, m \in ms : createWallet(pw, m)
    \/ \E pw \in pws, m \in ms : importFromMnemonic(m, pw)
    \/ \E pw \in pws, k \in PrivateKeyInputs : importFromPrivateKey(k, pw)
    \/ \E pw \in pws, j \in KeystoreInputs, kp \in KeystorePasswords :
          importFromKeystore(j, kp, pw)

\* Session: every request of the trusted surface that adds to or clears the
\* unlocked session, at one instant (no timer comes due).
Next ==
    \/ CreateOps({"pw1"}, {"m1", "bad"})
    \/ \E id \in Uuids : unlockWallet(id, "pw1")
    \/ lock
    \/ \E id \in Uuids : deleteWallet(id)
    \/ clearAllWallets
    \/ \E id \in Uuids : createHotkey(id, "pw1")
    \/ \E id \in Uuids : unlockHotkey(id, "pw1")
    \/ \E id \in Uuids : deleteHotkey(id)

Spec == Init /\ [][Next]_vars

\* Signing: the signature-producing requests of the trusted surface, with
\* coldkeys created, unlocked, locked, activated and deleted in between.
NextSign ==
    \/ createWallet("pw1", "m1")
    \/ importFromPrivateKey("k1", "pw1")
    \/ \E id \in Uuids : unlockWallet(id, "pw1")
    \/ lock
    \/ \E id \in Uuids : deleteWallet(id)
    \/ \E id \in Uuids : setActiveWallet(id)
    \/ \E id \in Uuids : signMessage(id)
    \/ \E id \in Uuids : signTransaction(id)
    \/ \E kind \in TxKinds, outcome \in ChainOutcomes : TxRequest(kind, outcome)

SpecSign == Init /\ [][NextSign]_vars

\* Rate limiting: unlock attempts with right and wrong passwords on one
\* coldkey while time passes.
NextRate ==
    \/ createWallet("pw1", "m1")
    \/ \E id \in Uuids, pw \in Passwords : unlockWallet(id, pw)
    \/ lock
    \/ AutoLockFire
    \/ Tick

SpecRate == Init /\ [][NextRate]_vars

\* every timer that is due has run: a callback whose delay has elapsed is
\* queued ahead of any request that arrives afterwards
TimersRun == \A d \in lockTimeout : d > now

\* Auto-lock: unlocking operations, the timer, the passage of time and the
\* operations that do not unlock.
NextAutoLock ==
    \/ TimersRun /\ createWallet("pw1", "m1")
    \/ TimersRun /\ \E id \in Uuids : unlockWallet(id, "pw1")
    \/ TimersRun /\ lock
    \/ AutoLockFire
    \/ Tick
    \/ TimersRun /\ \E m \in {{}} \cup {{t} : t \in AutoLockChoices} : updateSettings(m)
    \/ TimersRun /\ \E id \in Uuids : deleteWallet(id)
    \/ TimersRun /\ renameWallet(1)
    \/ TimersRun /\ signMessage(1)
    \/ TimersRun /\ TxRequest("transfer:send", "success")
    \/ TimersRun /\ unlockHotkey(2, "pw1")
    \/ TimersRun /\ markHotkeyBackedUp(2)

\* the state after construction with the chain link up
InitConnected == Init /\ api = "up"

SpecAutoLock == InitConnected /\ [][NextAutoLock]_vars

\* The broker's account-facing operations over a vault of up to two coldkeys:
\* grants come and go, coldkeys are created, deleted, locked, unlocked and
\* activated, and the dApp connects, lists accounts and has actions executed.
NextDapp ==
    \/ createWallet("pw1", "m1")
    \/ importFromPrivateKey("k1", "pw1")
    \/ \E id \in Uuids : unlockWallet(id, "pw1")
    \/ lock
    \/ \E id \in Uuids : deleteWallet(id)
    \/ \E id \in Uuids : setActiveWallet(id)
    \/ \E o \in Origins, a \in AccountChoices : grantPermission(o, a)
    \/ \E o \in Origins : revokePermission(o)
    \/ \E o \in Origins : handleDisconnect(o)
    \/ \E o \in Origins, p \in BOOLEAN : handleConnect(o, p)
    \/ \E o \in Origins : handleGetAccounts(o)
    \/ \E m \in SensitiveMethods, o \in Origins, out \in {"success"} :
          executeApprovedAction(m, o, out)

SpecDapp == InitConnected /\ [][NextDapp]_vars

\* Approvals: sensitive calls, their registration, the user's answers, the
\* timeout timers and the passage of time, with and without a connect grant.
NextApproval ==
    \/ \E o \in Origins : requestApproval(o, "signMessage")
    \/ \E c \in 1..MaxCalls, p \in BOOLEAN : registerApproval(c, p)
    \/ \E id \in 1..MaxCalls, a \in BOOLEAN : resolveApproval(id, a)
    \/ \E t \in approvalTimers : approvalTimeout(t)
    \/ now < MaxApprovalTime /\ Tick
    \/ grantPermission("o1", {"addr1"})

SpecApproval == InitConnected /\ [][NextApproval]_vars

\* Permission calls that overlap at their suspension points.
NextPerm ==
    \/ createWallet("pw1", "m1")
    \/ \E o \in Origins : getPermissions("grantPermission", o, {"addr1"})
    \/ \E o \in Origins : getPermissions("revokePermission", o, {})
    \/ \E o \in Origins : getPermissions("disconnect", o, {})
    \/ \E f \in permFlows : savePermissions(f)
    \/ \E o \in Origins : handleGetAccounts(o)

SpecPerm == InitConnected /\ [][NextPerm]_vars

\* Passwords: coldkeys of every creatable type, password changes, unlock
\* attempts with either password, and locking.
NextPassword ==
    \/ createWallet("pw1", "m1")
    \/ importFromPrivateKey("k1", "pw1")
    \/ importFromKeystore("j1", "kp1", "pw1")
    \/ \E id \in Uuids, cur \in Passwords, new \in Passwords : changePassword(id, cur, new)
    \/ \E id \in Uuids, pw \in Passwords : unlockWallet(id, pw)
    \/ lock

SpecPassword == InitConnected /\ [][NextPassword]_vars

\* Unlocking over a persisted vault: attempts with either password on a
\* stored coldkey of any type, locking, the auto-lock timer and time.
NextStored ==
    \/ \E id \in Uuids, pw \in Passwords : unlockWallet(id, pw)
    \/ lock
    \/ AutoLockFire
    \/ Tick
    \/ \E id \in Uuids : signMessage(id)

SpecStored == InitStored /\ [][NextStored]_vars

\* Overlapping key-manager calls: coldkey creation and import, deletion,
\* hotkey creation and password change, each advancing await by await.
FlowTargets == {1, 2}

NextFlows ==
    \/ AddColdkeyBegin("createWallet", "hd", "m1", encrypt("m1", "pw1"), NoEnc, "pw1")
    \/ AddColdkeyBegin("importFromMnemonic", "hd", "m1", encrypt("m1", "pw1"), NoEnc, "pw1")
    \/ \E f \in keyFlows : AddColdkeySave(f)
    \/ \E f \in keyFlows : AddColdkeyUnlock(f)
    \/ \E f \in keyFlows : AddColdkeyHotkey(f)
    \/ \E id \in FlowTargets : createHotkeyBegin(id, "pw1")
    \/ \E f \in keyFlows : createHotkeyVerify(f)
    \/ \E f \in keyFlows : createHotkeyRead(f)
    \/ \E f \in keyFlows : createHotkeySave(f)
    \/ \E id \in FlowTargets : deleteWalletBegin(id)
    \/ \E f \in keyFlows : deleteWalletSave(f)
    \/ \E f \in keyFlows : deleteWalletRead(f)
    \/ \E f \in keyFlows : deleteWalletCascade(f)
    \/ \E id \in FlowTargets : changePasswordBegin(id, "pw1", "pw2")
    \/ \E f \in keyFlows : changePasswordSave(f)
    \/ \E f \in keyFlows : changePasswordRead(f)
    \/ \E f \in keyFlows : changePasswordHotkeys(f)

SpecFlows == InitConnected /\ [][NextFlows]_vars

\* Password changes over a vault whose hotkeys may be under another
\* password: a hotkey creation that verified the password before a change
\* and saves after it, a second coldkey, and changes with either password.
NextChange ==
    \/ createWallet("pw1", "m1")
    \/ importFromPrivateKey("k1", "pw1")
    \/ createHotkeyBegin(1, "pw1")
    \/ \E f \in keyFlows : createHotkeyVerify(f)
    \/ \E f \in keyFlows : createHotkeyRead(f)
    \/ \E f \in keyFlows : createHotkeySave(f)
    \/ \E id \in FlowTargets, cur \in Passwords, new \in Passwords :
          changePassword(id, cur, new)

SpecChange == InitConnected /\ [][NextChange]_vars

\* Outbound transactions: every kind, with and without a connection, with
\* every failure of the nonce fetch, the signing and the submission, and
\* every report of the chain.
NextTx ==
    \/ connect
    \/ disconnect
    \/ \E op \in TxOps, limitAvailable \in BOOLEAN, available \in BOOLEAN :
          txBegin(op, limitAvailable, available)
    \/ \E f \in txs, ok \in BOOLEAN : txNonce(f, ok)
    \/ \E f \in txs, ok \in BOOLEAN : txSign(f, ok)
    \/ \E f \in txs : txSendFails(f)
    \/ \E f \in txs, status \in ChainStatuses, dispatchError \in DispatchErrors :
          submitAndWaitForBlock(f, status, dispatchError)
    \/ \E f \in txs : txSendReturns(f)

SpecTx == Init /\ [][NextTx]_vars

\* the callers that may wait on submitAndWaitForBlock
WaitingOps == {"transfer", "addStake", "removeStake", "moveStake"}

\* the next thing that happens to the suspended call f: the promise it
\* awaits settles, or the node reports a status to its callback
txProgress(f) ==
    \/ \E ok \in BOOLEAN : txNonce(f, ok)
    \/ \E ok \in BOOLEAN : txSign(f, ok)
    \/ \E status \in ChainStatuses, dispatchError \in DispatchErrors :
          submitAndWaitForBlock(f, status, dispatchError)
    \/ txSendReturns(f)

\* One transaction call at a time, each issued when the one before it has
\* returned.
NextTxLive ==
    \/ connect
    \/ disconnect
    \/ \E op \in TxOps, limitAvailable \in BOOLEAN, available \in BOOLEAN :
          txs = {} /\ txBegin(op, limitAvailable, available)
    \/ \E f \in txs : txProgress(f)
    \/ \E f \in txs : txSendFails(f)

\* No promise of the call stays pending for ever, and the node goes on
\* reporting about the transaction until it has reported a last status.
SpecTxLive == Init /\ [][NextTxLive]_vars /\ WF_vars(\E f \in txs : txProgress(f))

\* The connection manager: explicit connects and disconnects, every outcome
\* of the handshake, link loss, reconnect timers, and queries in any state.
NextConn ==
    \/ \E n \in Networks : connectBegin(n, "")
    \/ \E d \in reconnectTimers : reconnectTimerFires(d)
    \/ disconnectCall
    \/ \E f \in connFlows : linkConnected(f)
    \/ \E f \in connFlows : handshakeFails(f)
    \/ \E f \in connFlows : apiCreated(f)
    \/ \E f \in connFlows : apiFails(f)
    \/ \E f \in connFlows : apiReady(f)
    \/ \E l \in DOMAIN links : onDisconnected(l)

SpecConn == Init /\ [][NextConn]_vars

\* The connection manager with custom targets: connects to a custom id with
\* either url, every outcome of the handshake, link loss and reconnect
\* timers.
NextCustom ==
    \/ \E n \in CustomIds, u \in CustomUrls : connectBegin(n, u)
    \/ \E d \in reconnectTimers : reconnectTimerFires(d)
    \/ disconnectCall
    \/ \E f \in connFlows : linkConnected(f)
    \/ \E f \in connFlows : handshakeFails(f)
    \/ \E f \in connFlows : apiCreated(f)
    \/ \E f \in connFlows : apiFails(f)
    \/ \E f \in connFlows : apiReady(f)
    \/ \E l \in DOMAIN links : onDisconnected(l)

SpecCustom == Init /\ [][NextCustom]_vars

\* Queries in every state of the connection: connected, never connected,
\* disconnected, the link lost, a reconnect pending or in flight.
NextQuery ==
    \/ connect
    \/ disconnect
    \/ \E l \in DOMAIN links : onDisconnected(l)
    \/ \E d \in reconnectTimers : reconnectTimerFires(d)
    \/ \E f \in connFlows : handshakeFails(f)
    \/ \E q \in Queries : query(q)
    \/ \E dryRunOk \in BOOLEAN : getTransferFee(dryRunOk)

SpecQuery == Init /\ [][NextQuery]_vars

\* ------------------------------------------- popup: the CreateWallet page

StateExpiry == 30
WalletNames == {"w1", "w2"}

\* loadSavedState(): the saved item, unless there is none or it has expired
loadSavedState ==
    IF localStorage = NoSaved \/ now - localStorage.timestamp > StateExpiry
    THEN NoSaved
    ELSE localStorage

\* saveState(state): the item is written with the time of writing
saveState(step, name, mnemonic) ==
    [step |-> step, name |-> name, mnemonic |-> mnemonic, timestamp |-> now]

\* persistState, run by the effect after every change of step, name or
\* mnemonic: the passwords are left out, the mnemonic is not
persistState(page) ==
    IF page.step /= "name" \/ page.name /= ""
    THEN saveState(page.step, page.name, page.mnemonic)
    ELSE loadSavedState

\* getInitialStep: a restored backup or verify step goes back to the password
getInitialStep(saved) ==
    IF saved = NoSaved THEN "name"
    ELSE IF saved.step \in {"backup", "verify"} THEN "password"
    ELSE saved.step

\* mnemonicGenerate(24): a phrase no coldkey of the vault was made from
FreshMnemonics == {m \in Mnemonics : \A w \in Range(wallets) : w.address /= AddressOf(m)}

PageOp(handler, result) == Op(handler, 0, result, "")

PageFrame ==
    UNCHANGED <<storeVars, hotkeys, sessionVars, unlockAttempts, nextUuid, now,
                lastUnlock, api, txs, connVars, keyFlows, brokerVars, cryptoVars, hotkeyFailures>>

\* the page is mounted: the state is restored and persisted again
openCreateWallet ==
    LET saved == loadSavedState
        page == [step |-> getInitialStep(saved), name |-> saved.name, password |-> "",
                 mnemonic |-> saved.mnemonic]
    IN
    /\ createPage = Closed
    /\ createPage' = page
    /\ localStorage' = persistState(page)
    /\ lastOp' = PageOp("CreateWallet", page.step)
    /\ UNCHANGED walletNames
    /\ PageFrame

\* checkExistingWallet: a coldkey with the saved name was created while the
\* popup was closed
checkExistingWallet ==
    /\ createPage.step \in {"name", "password", "backup", "verify"}
    /\ localStorage.mnemonic /= "" /\ localStorage.name /= ""
    /\ localStorage.name \in walletNames
    /\ localStorage' = NoSaved
    /\ createPage' = Closed
    /\ lastOp' = PageOp("checkExistingWallet", "cleared")
    /\ UNCHANGED walletNames
    /\ PageFrame

handleNameSubmit(name) ==
    LET page == [createPage EXCEPT !.name = name, !.step = "password"] IN
    /\ createPage.step = "name"
    /\ createPage' = page
    /\ localStorage' = persistState(page)
    /\ lastOp' = PageOp("handleNameSubmit", page.step)
    /\ UNCHANGED walletNames
    /\ PageFrame

handlePasswordSubmit(password, confirmPassword) ==
    /\ createPage.step = "password"
    /\ IF password /= confirmPassword
       THEN /\ lastOp' = PageOp("handlePasswordSubmit", "mismatch")
            /\ UNCHANGED <<createPage, localStorage>>
       ELSE \E generated \in FreshMnemonics :
               LET page == [createPage EXCEPT
                               !.password = password,
                               !.mnemonic = IF @ = "" THEN generated ELSE @,
                               !.step = "backup"]
               IN
               /\ createPage' = page
               /\ localStorage' = persistState(page)
               /\ lastOp' = PageOp("handlePasswordSubmit", page.step)
    /\ UNCHANGED walletNames
    /\ PageFrame

handleProceedToVerify ==
    LET page == [createPage EXCEPT !.step = "verify"] IN
    /\ createPage.step = "backup"
    /\ createPage' = page
    /\ localStorage' = persistState(page)
    /\ lastOp' = PageOp("handleProceedToVerify", page.step)
    /\ UNCHANGED walletNames
    /\ PageFrame

\* handleVerifySubmit up to `await createWallet(...)`: the words are checked
\* and the background creates the coldkey
handleVerifySubmit(wordsCorrect) ==
    /\ createPage.step = "verify"
    /\ IF ~wordsCorrect
       THEN /\ lastOp' = PageOp("handleVerifySubmit", "verifyError")
            /\ UNCHANGED <<createPage, localStorage, walletNames, storeVars, hotkeys,
                           sessionVars, nextUuid, lastUnlock>>
       ELSE /\ AddColdkey("createWallet", "hd", createPage.mnemonic,
                          encrypt(createPage.mnemonic, createPage.password), NoEnc,
                          createPage.password)
            /\ createPage' = [createPage EXCEPT !.step = "creating"]
            /\ walletNames' = IF lastOp'.result = "created"
                              THEN walletNames \cup {createPage.name}
                              ELSE walletNames
            /\ UNCHANGED localStorage
    /\ UNCHANGED <<unlockAttempts, now, api, txs, connVars, cryptoVars, hotkeyFailures, keyFlows,
                   brokerVars>>

\* the answer of createWallet reaches the page: success or 'already exists'
\* clears the saved state and leaves the page
creationReturns ==
    /\ createPage.step = "creating"
    /\ localStorage' = NoSaved
    /\ createPage' = Closed
    /\ lastOp' = PageOp("handleVerifySubmit", "cleared")
    /\ UNCHANGED walletNames
    /\ PageFrame

\* the back arrow of the header
goBack ==
    /\ createPage.step \in {"name", "password", "backup", "verify"}
    /\ IF createPage.step = "name"
       THEN /\ localStorage' = NoSaved
            /\ createPage' = Closed
       ELSE LET page == [createPage EXCEPT
                            !.step = CASE @ = "password" -> "name"
                                       [] @ = "backup" -> "password"
                                       [] @ = "verify" -> "backup"]
            IN
            /\ createPage' = page
            /\ localStorage' = persistState(page)
    /\ lastOp' = PageOp("goBack", createPage'.step)
    /\ UNCHANGED walletNames
    /\ PageFrame

\* the popup is closed: the React state is gone, localStorage stays
closePopup ==
    /\ createPage /= Closed
    /\ createPage' = Closed
    /\ lastOp' = PageOp("closePopup", "")
    /\ UNCHANGED <<localStorage, walletNames>>
    /\ PageFrame

\* The creation flow of the popup, step by step, closed and reopened at any
\* point, over a vault that starts empty.
NextCreate ==
    \/ openCreateWallet
    \/ checkExistingWallet
    \/ \E name \in WalletNames : handleNameSubmit(name)
    \/ \E password, confirmPassword \in Passwords :
          handlePasswordSubmit(password, confirmPassword)
    \/ handleProceedToVerify
    \/ \E wordsCorrect \in BOOLEAN : handleVerifySubmit(wordsCorrect)
    \/ creationReturns
    \/ goBack
    \/ closePopup

SpecCreate == Init /\ [][NextCreate]_vars

\* ------------------------------- shared: encrypt / decrypt, byte by byte
\* A string is the sequence of its UTF-16 code units, a Uint8Array the
\* sequence of its bytes, a base64 string the sequence of its sextets.

PBKDF2_ITERATIONS == 900000
ByteOrderMark == 65279
ReplacementCharacter == 65533
Base64Pad == 64

\* "", "a", "é", a leading or trailing U+FEFF, an unpaired surrogate
CodeUnits == {97, 233, ByteOrderMark, 55296}
Plaintexts == {<<>>} \cup {<<u>> : u \in CodeUnits}
                     \cup {<<u, v>> : u, v \in CodeUnits}
PasswordTexts == <<(<<112, 49>>), (<<113, 49>>)>>
\* crypto.getRandomValues(new Uint8Array(n)): two of the draws
Salts == {[i \in 1..SaltLen |-> b] : b \in {1, 2}}
Nonces == {[i \in 1..NonceLen |-> b] : b \in {7, 200}}

IsHighSurrogate(u) == u >= 55296 /\ u <= 56319
IsLowSurrogate(u) == u >= 56320 /\ u <= 57343

\* the UTF-8 bytes of one scalar value
Utf8Bytes(c) ==
    IF c < 128 THEN <<c>>
    ELSE IF c < 2048 THEN <<192 + (c \div 64), 128 + (c % 64)>>
    ELSE IF c < 65536
    THEN <<224 + (c \div 4096), 128 + ((c \div 64) % 64), 128 + (c % 64)>>
    ELSE <<240 + (c \div 262144), 128 + ((c \div 4096) % 64),
           128 + ((c \div 64) % 64), 128 + (c % 64)>>

\* new TextEncoder().encode(s): a surrogate pair is one scalar value, an
\* unpaired surrogate is replaced by U+FFFD
RECURSIVE TextEncode(_)
TextEncode(s) ==
    IF s = <<>> THEN <<>>
    ELSE IF IsHighSurrogate(s[1]) /\ Len(s) >= 2 /\ IsLowSurrogate(s[2])
    THEN Utf8Bytes(65536 + (s[1] - 55296) * 1024 + (s[2] - 56320))
            \o TextEncode(SubSeq(s, 3, Len(s)))
    ELSE IF IsHighSurrogate(s[1]) \/ IsLowSurrogate(s[1])
    THEN Utf8Bytes(ReplacementCharacter) \o TextEncode(Tail(s))
    ELSE Utf8Bytes(s[1]) \o TextEncode(Tail(s))

\* the code units of a UTF-8 byte sequence; a byte that starts no sequence
\* gives U+FFFD
RECURSIVE Utf8Units(_)
Utf8Units(b) ==
    IF b = <<>> THEN <<>>
    ELSE IF b[1] < 128 THEN <<b[1]>> \o Utf8Units(Tail(b))
    ELSE IF b[1] >= 192 /\ b[1] < 224 /\ Len(b) >= 2
    THEN <<(b[1] - 192) * 64 + (b[2] - 128)>> \o Utf8Units(SubSeq(b, 3, Len(b)))
    ELSE IF b[1] >= 224 /\ b[1] < 240 /\ Len(b) >= 3
    THEN <<(b[1] - 224) * 4096 + (b[2] - 128) * 64 + (b[3] - 128)>>
            \o Utf8Units(SubSeq(b, 4, Len(b)))
    ELSE IF b[1] >= 240 /\ b[1] < 248 /\ Len(b) >= 4
    THEN LET c == (b[1] - 240) * 262144 + (b[2] - 128) * 4096
                     + (b[3] - 128) * 64 + (b[4] - 128) - 65536
         IN <<55296 + (c \div 1024), 56320 + (c % 1024)>>
               \o Utf8Units(SubSeq(b, 5, Len(b)))
    ELSE <<ReplacementCharacter>> \o Utf8Units(Tail(b))

\* new TextDecoder().decode(buffer): utf-8, not fatal, ignoreBOM false, so
\* a byte order mark at the start is dropped
TextDecode(b) ==
    LET units == Utf8Units(b) IN
    IF units /= <<>> /\ units[1] = ByteOrderMark THEN Tail(units) ELSE units

\* btoa over the binary string of the bytes
RECURSIVE uint8ArrayToBase64(_)
uint8ArrayToBase64(bytes) ==
    IF bytes = <<>> THEN <<>>
    ELSE IF Len(bytes) = 1
    THEN <<bytes[1] \div 4, (bytes[1] % 4) * 16, Base64Pad, Base64Pad>>
    ELSE IF Len(bytes) = 2
    THEN <<bytes[1] \div 4, (bytes[1] % 4) * 16 + (bytes[2] \div 16),
           (bytes[2] % 16) * 4, Base64Pad>>
    ELSE <<bytes[1] \div 4, (bytes[1] % 4) * 16 + (bytes[2] \div 16),
           (bytes[2] % 16) * 4 + (bytes[3] \div 64), bytes[3] % 64>>
            \o uint8ArrayToBase64(SubSeq(bytes, 4, Len(bytes)))

\* atob, then the char codes
RECURSIVE base64ToUint8Array(_)
base64ToUint8Array(base64) ==
    IF Len(base64) < 4 THEN <<>>
    ELSE LET first == base64[1] * 4 + (base64[2] \div 16)
             second == (base64[2] % 16) * 16 + (base64[3] \div 4)
             third == (base64[3] % 4) * 64 + base64[4]
         IN
         IF base64[3] = Base64Pad THEN <<first>>
         ELSE IF base64[4] = Base64Pad THEN <<first, second>>
         ELSE <<first, second, third>> \o base64ToUint8Array(SubSeq(base64, 5, Len(base64)))

RECURSIVE SumBytes(_)
SumBytes(b) == IF b = <<>> THEN 0 ELSE b[1] + SumBytes(Tail(b))

\* deriveKey(password, salt, iterations): PBKDF2 is taken to give different
\* keys for different password bytes, salts or iteration counts
deriveKey(password, salt, iterations) ==
    [material |-> TextEncode(password), salt |-> salt, iterations |-> iterations]

\* the key as a number: the place of its password bytes among the passwords
KeyNumber(key) ==
    IF \E i \in DOMAIN PasswordTexts : TextEncode(PasswordTexts[i]) = key.material
    THEN (CHOOSE i \in DOMAIN PasswordTexts : TextEncode(PasswordTexts[i]) = key.material)
            + (IF key.iterations = PBKDF2_ITERATIONS THEN 0 ELSE 100)
    ELSE 0

\* the AES-CTR key stream of AES-GCM: one byte, the same for the same key and iv
KeyStream(key, iv) == (31 * KeyNumber(key) + SumBytes(key.salt) + SumBytes(iv)) % 256

\* the authentication tag: it is taken to differ whenever the key, the iv or
\* the ciphertext differs
GcmTag(key, iv, body) ==
    <<KeyNumber(key)>> \o key.salt \o iv \o <<SumBytes(body) % 256>>

TagBytes(key, iv) == 2 + Len(key.salt) + Len(iv)

\* crypto.subtle.encrypt({ name: 'AES-GCM', iv }, key, dataBytes)
SubtleEncrypt(key, iv, dataBytes) ==
    LET body == [i \in DOMAIN dataBytes |-> (dataBytes[i] + KeyStream(key, iv)) % 256]
    IN body \o GcmTag(key, iv, body)

\* crypto.subtle.decrypt({ name: 'AES-GCM', iv }, key, ciphertext): whether
\* the tag verifies, and the bytes it gives then
SubtleVerifies(key, iv, ciphertext) ==
    /\ Len(ciphertext) >= TagBytes(key, iv)
    /\ LET body == SubSeq(ciphertext, 1, Len(ciphertext) - TagBytes(key, iv)) IN
       SubSeq(ciphertext, Len(ciphertext) - TagBytes(key, iv) + 1, Len(ciphertext))
          = GcmTag(key, iv, body)

SubtleDecrypt(key, iv, ciphertext) ==
    LET body == SubSeq(ciphertext, 1, Len(ciphertext) - TagBytes(key, iv)) IN
    [i \in DOMAIN body |-> (body[i] + 256 - KeyStream(key, iv)) % 256]

\* encrypt(data, password) with the salt and the iv that were drawn
Encrypt(data, password, salt, iv) ==
    [ciphertext |-> uint8ArrayToBase64(
                       SubtleEncrypt(deriveKey(password, salt, PBKDF2_ITERATIONS), iv,
                                     TextEncode(data))),
     iv |-> uint8ArrayToBase64(iv),
     salt |-> uint8ArrayToBase64(salt),
     iterations |-> PBKDF2_ITERATIONS]

\* decrypt(encryptedData, password): the text, or the error of subtle.decrypt
Decrypt(encryptedData, password) ==
    LET ciphertext == base64ToUint8Array(encryptedData.ciphertext)
        iv == base64ToUint8Array(encryptedData.iv)
        salt == base64ToUint8Array(encryptedData.salt)
        key == deriveKey(password, salt, encryptedData.iterations)
    IN
    IF SubtleVerifies(key, iv, ciphertext)
    THEN [ok |-> TRUE, text |-> TextDecode(SubtleDecrypt(key, iv, ciphertext))]
    ELSE [ok |-> FALSE, text |-> <<>>]

CryptoFrame ==
    UNCHANGED <<storeVars, hotkeys, sessionVars, unlockAttempts, nextUuid, now,
                lastUnlock, api, txs, connVars, popupVars, keyFlows, brokerVars,
                hotkeyFailures>>

\* a call of encrypt: crypto.getRandomValues draws the salt and the iv
encryptCall(data, password) ==
    /\ \E salt \in Salts, iv \in Nonces :
          sealed' = [data |-> data, password |-> password,
                     package |-> Encrypt(data, password, salt, iv)]
    /\ opened' = NotOpened
    /\ lastOp' = Op("encrypt", 0, "", "")
    /\ CryptoFrame

\* a call of decrypt on the package of the last encrypt
decryptCall(password) ==
    LET outcome == Decrypt(sealed.package, password) IN
    /\ sealed /= Unsealed
    /\ opened' = [called |-> TRUE, ok |-> outcome.ok, text |-> outcome.text,
                  password |-> password]
    /\ lastOp' = Op("decrypt", 0, IF outcome.ok THEN "text" ELSE "error", "")
    /\ UNCHANGED sealed
    /\ CryptoFrame

\* encrypt and decrypt as functions: every plaintext and password of the
\* bounded sets, every draw of salt and iv, every password at decryption.
NextCrypto ==
    \/ \E data \in Plaintexts, i \in DOMAIN PasswordTexts :
          encryptCall(data, PasswordTexts[i])
    \/ \E i \in DOMAIN PasswordTexts : decryptCall(PasswordTexts[i])

SpecCrypto == Init /\ [][NextCrypto]_vars

\* -------------------------------------- unlockWallet, await by await

\* The local `attempts` of a suspended unlockWallet call is a reference: ref 0
\* is the record the map holds under the id, another ref is a record detached
\* from the map (created by `|| { count: 0, lastAttempt: 0 }`, or deleted or
\* replaced in the map since the call fetched it).  Calls with one ref share
\* one record.  call tells overlapping calls with equal arguments apart.
UnlockFlow(walletId, password, wallet, attempts, ref, call) ==
    Flow("unlockWallet", "decrypt", walletId, 0, password, "",
         [wallet |-> wallet, attempts |-> attempts, now |-> now, ref |-> ref,
          call |-> call],
         WalletStoreNow, <<>>)

\* the suspended unlockWallet calls
UnlockFlows == {g \in keyFlows : g.op = "unlockWallet"}

\* a reference no suspended call in flows holds
FreshRef(flows) ==
    CHOOSE r \in 1..(Cardinality(flows) + 1) :
        \A g \in flows : g.op = "unlockWallet" => g.item.ref /= r

\* a call number no suspended call holds
FreshCall ==
    CHOOSE c \in 1..(Cardinality(UnlockFlows) + 1) : \A g \in UnlockFlows : g.item.call /= c

\* the record the local `attempts` of the suspended call f refers to
AttemptsOf(f) ==
    IF f.item.ref = 0 THEN unlockAttempts[f.id] ELSE f.item.attempts

\* the calls on walletId that hold the map's record keep it, detached, once
\* the map drops or replaces it
Detach(flows, walletId) ==
    LET r == FreshRef(flows) IN
    {IF g.op = "unlockWallet" /\ g.id = walletId /\ g.item.ref = 0
     THEN [g EXCEPT !.item.ref = r, !.item.attempts = unlockAttempts[walletId]]
     ELSE g : g \in flows}

\* this.unlockAttempts.set(walletId, attempts) by the call f: the calls that
\* share f's record now hold the map's record
Attach(flows, f) ==
    {IF g.op = "unlockWallet" /\ g.id = f.id /\ g.item.ref = f.item.ref
     THEN [g EXCEPT !.item.ref = 0]
     ELSE g : g \in flows}

\* unlockWallet up to `await decrypt(wallet.encrypted, password)`: the rate
\* limit, the lookup, the watch-only case
unlockWalletBegin(walletId, password) ==
    LET attempts == WindowReset(GetAttempts(walletId))
        ref == IF walletId \in DOMAIN unlockAttempts THEN 0 ELSE FreshRef(UnlockFlows)
    IN
    /\ unlockAttempts' = AttemptsInPlace(walletId, attempts)
    /\ IF RateLimited(attempts)
       THEN /\ lastOp' = Op("unlockWallet", walletId, "rate_limited", "")
            /\ UNCHANGED keyFlows
       ELSE IF ~HasWallet(walletId)
       THEN /\ lastOp' = Op("unlockWallet", walletId, "not_found", "")
            /\ UNCHANGED keyFlows
       ELSE IF FindWallet(walletId).type \in {"watch", "multisig"}
       THEN /\ lastOp' = Op("unlockWallet", walletId, "true", "")
            /\ UNCHANGED keyFlows
       ELSE /\ Cardinality(keyFlows) < MaxKeyFlows
            /\ keyFlows' = keyFlows \cup
                  {UnlockFlow(walletId, password, FindWallet(walletId), attempts,
                              ref, FreshCall)}
            /\ lastOp' = Awaiting
    /\ UNCHANGED <<storeVars, hotkeys, sessionVars, nextUuid, now, lastUnlock, api, txs,
                   connVars, popupVars, cryptoVars, hotkeyFailures, brokerVars>>

\* decrypt has settled: the try block goes on, or the catch block counts the
\* failure on the record the call holds and stores that record
unlockWalletDecrypted(f) ==
    /\ f \in keyFlows /\ f.op = "unlockWallet" /\ f.pc = "decrypt"
    /\ IF UnlockDecrypts(f.item.wallet, f.password)
       THEN /\ unlockedWallets' = MapSet(unlockedWallets, f.id, f.item.wallet.address)
            /\ unlockAttempts' = MapDelete(unlockAttempts, f.id)
            /\ keyFlows' = IF f.id \in DOMAIN unlockAttempts
                           THEN Detach(keyFlows \ {f}, f.id)
                           ELSE keyFlows \ {f}
            /\ lockTimeout' = resetLockTimeout(f.store.autoLockTimeout)
            /\ lockState' = FALSE
            /\ lastUnlock' = {[at |-> now, timeout |-> f.store.autoLockTimeout]}
            /\ lastOp' = Op("unlockWallet", f.id, "true", "")
            /\ UNCHANGED unlockedHotkeys
       ELSE /\ unlockAttempts' = MapSet(unlockAttempts, f.id,
                                        [count |-> AttemptsOf(f).count + 1,
                                         lastAttempt |-> f.item.now])
            /\ keyFlows' = IF f.item.ref = 0
                           THEN keyFlows \ {f}
                           ELSE Attach(IF f.id \in DOMAIN unlockAttempts
                                       THEN Detach(keyFlows, f.id) \ {f}
                                       ELSE keyFlows \ {f}, f)
            /\ lastOp' = Op("unlockWallet", f.id, "false", "")
            /\ UNCHANGED <<sessionVars, lastUnlock>>
    /\ UNCHANGED <<storeVars, hotkeys, nextUuid, now, api, txs, connVars, popupVars,
                   cryptoVars, hotkeyFailures, brokerVars>>

\* Unlocking await by await over a persisted vault: unlock calls with either
\* password that overlap with each other and with lock().
NextUnlock ==
    \/ \E walletId \in 1..2, password \in Passwords : unlockWalletBegin(walletId, password)
    \/ \E f \in keyFlows : unlockWalletDecrypted(f)
    \/ lock

SpecUnlock == InitStored /\ [][NextUnlock]_vars

\* Hotkey unlocking: attempts with the right and the wrong password on the
\* hotkeys of a coldkey while time passes.
NextHotkeyRate ==
    \/ createWallet("pw1", "m1")
    \/ \E id \in 2..3, pw \in Passwords : unlockHotkey(id, pw)
    \/ lock
    \/ AutoLockFire
    \/ Tick

SpecHotkeyRate == Init /\ [][NextHotkeyRate]_vars

\* ------------------------- transaction requests and lock(), await by await

\* transfer:send and staking:* of the popup, and executeApprovedAction for
\* the transaction methods of a dApp
RequestKinds == {"transfer:send", "staking:add", "staking:remove", "staking:move",
                 "executeApprovedAction"}

\* the signer a request has captured: the key pair taken from the session,
\* and the signature it has produced so far ("" for none)
NoSigner == [keypair |-> "", signature |-> ""]

\* the locals of a suspended transaction request
RequestFlow(kind, pc, origin, id, signer, store) ==
    Flow(kind, pc, id, 0, "", origin, signer, store, <<>>)

RequestFlows == {f \in keyFlows : f.op \in RequestKinds}

\* what a request hands back
RequestOp(f, result, signer) == DappOp(f.op, f.new, "", f.id, result, signer, {})

\* the request starts: executeApprovedAction awaits getPermissions(), the
\* popup's cases await getActiveWallet()
requestBegin(kind, origin) ==
    /\ Cardinality(keyFlows) < MaxKeyFlows
    /\ \A f \in RequestFlows : f.op /= kind
    /\ IF kind = "executeApprovedAction"
       THEN keyFlows' = keyFlows \cup
               {RequestFlow(kind, "permissions", origin, 0, NoSigner, NoStore)}
       ELSE keyFlows' = keyFlows \cup
               {RequestFlow(kind, "active", "", 0, NoSigner, WalletStoreNow)}
    /\ lastOp' = Awaiting
    /\ UNCHANGED <<storeVars, hotkeys, sessionVars, unlockAttempts, nextUuid, now,
                   lastUnlock, api, txs, connVars, popupVars, cryptoVars, hotkeyFailures, brokerVars>>

\* executeApprovedAction after getPermissions(): without a grant it throws,
\* with one it awaits getActiveWallet()
requestGranted(f) ==
    /\ f \in keyFlows /\ f.op = "executeApprovedAction" /\ f.pc = "permissions"
    /\ IF ~Connected(f.new)
       THEN /\ keyFlows' = keyFlows \ {f}
            /\ lastOp' = RequestOp(f, "no_grant", "")
       ELSE /\ keyFlows' = Suspend(f, [f EXCEPT !.pc = "active", !.store = WalletStoreNow])
            /\ lastOp' = Awaiting
    /\ UNCHANGED <<storeVars, hotkeys, sessionVars, unlockAttempts, nextUuid, now,
                   lastUnlock, api, txs, connVars, popupVars, cryptoVars, hotkeyFailures, brokerVars>>

\* store.wallets.find((w) => w.id === store.activeWalletId) of getActiveWallet
ActiveIn(store) ==
    IF store.activeWalletId /= 0
       /\ \E i \in DOMAIN store.wallets : store.wallets[i].id = store.activeWalletId
    THEN store.activeWalletId
    ELSE 0

\* getActiveWallet() has returned: the request is turned away without an
\* active coldkey or with a locked one; otherwise the key pair is taken from
\* the session into the signer and the connection manager's call starts,
\* which throws on a null api and else awaits the account's nonce
requestAdmitted(f) ==
    LET id == ActiveIn(f.store) IN
    /\ f \in keyFlows /\ f.op \in RequestKinds /\ f.pc = "active"
    /\ IF id = 0
       THEN /\ keyFlows' = keyFlows \ {f}
            /\ lastOp' = RequestOp(f, "no_active", "")
       ELSE IF ~isUnlocked(id)
       THEN /\ keyFlows' = keyFlows \ {f}
            /\ lastOp' = RequestOp([f EXCEPT !.id = id], "locked", "")
       ELSE IF api = "none"
       THEN /\ keyFlows' = keyFlows \ {f}
            /\ lastOp' = RequestOp([f EXCEPT !.id = id], "not_connected", "")
       ELSE /\ keyFlows' = Suspend(f, [f EXCEPT !.pc = "nonce", !.id = id,
                                                !.item.keypair = unlockedWallets[id]])
            /\ lastOp' = Awaiting
    /\ UNCHANGED <<storeVars, hotkeys, sessionVars, unlockAttempts, nextUuid, now,
                   lastUnlock, api, txs, connVars, popupVars, cryptoVars, hotkeyFailures, brokerVars>>

\* accountNextIndex settles: a rejection, or a null api under
\* this.api.registry, is caught; otherwise signer.sign is issued
requestNonce(f, ok) ==
    /\ f \in keyFlows /\ f.op \in RequestKinds /\ f.pc = "nonce"
    /\ IF ~ok \/ api = "none"
       THEN /\ keyFlows' = keyFlows \ {f}
            /\ lastOp' = RequestOp(f, "nonce_failed", "")
       ELSE /\ keyFlows' = Suspend(f, [f EXCEPT !.pc = "sign"])
            /\ lastOp' = Awaiting
    /\ UNCHANGED <<storeVars, hotkeys, sessionVars, unlockAttempts, nextUuid, now,
                   lastUnlock, api, txs, connVars, popupVars, cryptoVars, hotkeyFailures, brokerVars>>

\* mutant: the signer looks the key pair up in the session when it signs
SessionSignature(f) == IF isUnlocked(f.id) THEN unlockedWallets[f.id] ELSE ""

\* signer.sign: keypair.sign(data) on the key pair the closure holds
CapturedSignature(f) == f.item.keypair

\* signer.sign settles: without a signature the call's catch returns a
\* failure; with one the transaction is signed and submitted
requestSigned(f) ==
    /\ f \in keyFlows /\ f.op \in RequestKinds /\ f.pc = "sign"
    /\ IF CapturedSignature(f) = ""
       THEN /\ keyFlows' = keyFlows \ {f}
            /\ lastOp' = RequestOp(f, "sign_failed", "")
       ELSE /\ keyFlows' = Suspend(f, [f EXCEPT !.pc = "sent",
                                                !.item.signature = CapturedSignature(f)])
            /\ lastOp' = Awaiting
    /\ UNCHANGED <<storeVars, hotkeys, sessionVars, unlockAttempts, nextUuid, now,
                   lastUnlock, api, txs, connVars, popupVars, cryptoVars, hotkeyFailures, brokerVars>>

\* the submission is rejected, or the chain reports the block: the call's
\* structured result goes back to the requester
requestSettled(f, outcome) ==
    /\ f \in keyFlows /\ f.op \in RequestKinds /\ f.pc = "sent"
    /\ keyFlows' = keyFlows \ {f}
    /\ lastOp' = RequestOp(f, outcome, f.item.signature)
    /\ UNCHANGED <<storeVars, hotkeys, sessionVars, unlockAttempts, nextUuid, now,
                   lastUnlock, api, txs, connVars, popupVars, cryptoVars, hotkeyFailures, brokerVars>>

\* Transaction requests await by await over a persisted vault, with lock()
\* and unlockWallet arriving between any two of their steps.
NextRequest ==
    \/ connect
    \/ disconnect
    \/ grantPermission("o1", {"addr1"})
    \/ unlockWallet(1, "pw1")
    \/ lock
    \/ \E kind \in RequestKinds, origin \in Origins : requestBegin(kind, origin)
    \/ \E f \in keyFlows : requestGranted(f)
    \/ \E f \in keyFlows : requestAdmitted(f)
    \/ \E f \in keyFlows, ok \in BOOLEAN : requestNonce(f, ok)
    \/ \E f \in keyFlows : requestSigned(f)
    \/ \E f \in keyFlows, outcome \in {"success", "dispatch_error", "transport_error"} :
          requestSettled(f, outcome)

SpecRequest == InitStored /\ [][NextRequest]_vars

\* ------------------------------------------------------------------ claims

\* C1: after lock() returns no signing capability remains cached:
\* isUnlocked(id) is false for every coldkey id, the unlocked-hotkey cache
\* is empty and no auto-lock timer is pending.
C1_LockClearsSession ==
    lastOp.op = "lock" =>
        /\ \A id \in Uuids : ~isUnlocked(id)
        /\ unlockedHotkeys = {}
        /\ lockTimeout = {}

\* lock() has run in a vault that holds a coldkey and a hotkey while the
\* auto-lock timeout is configured
C1_Witness ==
    /\ lastOp.op = "lock"
    /\ wallets /= <<>>
    /\ hotkeys /= <<>>
    /\ autoLockTimeout > 0

\* the id is inside the lockout: five failures counted, the last of them no
\* more than 15 minutes ago
LockedOut(id) ==
    /\ id \in DOMAIN unlockAttempts
    /\ unlockAttempts[id].count >= MaxFailedAttempts
    /\ now - unlockAttempts[id].lastAttempt <= RateLimitWindow

\* the failure count an attempt starts from
CountBefore(id) ==
    IF id \in DOMAIN unlockAttempts
       /\ now - unlockAttempts[id].lastAttempt <= RateLimitWindow
    THEN unlockAttempts[id].count
    ELSE 0

\* C2: sequential unlockWallet calls on one coldkey.  Inside the lockout
\* every call, whatever its password, fails with the rate-limit error
\* without reading the store or decrypting, and leaves the failure record
\* as it was (the lockout is not extended).  Outside it the call decrypts
\* and returns true or false; a false result counts one more failure,
\* starting from zero when more than 15 minutes have passed since the last
\* failure, so the first five failures each return false.
C2_RateLimit ==
    [][\A id \in WalletIds :
          (lastOp'.op = "unlockWallet" /\ lastOp'.id = id) =>
             IF LockedOut(id)
             THEN /\ lastOp'.result = "rate_limited"
                  /\ UNCHANGED <<unlockAttempts, unlockedWallets, lockTimeout, lockState>>
             ELSE /\ lastOp'.result \in {"true", "false"}
                  /\ lastOp'.result = "false" =>
                        /\ id \in DOMAIN unlockAttempts'
                        /\ unlockAttempts'[id].count = CountBefore(id) + 1
                        /\ unlockAttempts'[id].count <= MaxFailedAttempts
                        /\ unlockAttempts'[id].lastAttempt = now
                        /\ UNCHANGED unlockedWallets
                  /\ lastOp'.result = "true" =>
                        /\ id \notin DOMAIN unlockAttempts'
                        /\ isUnlocked(id)']_vars

\* an unlock attempt has been refused by the rate limit
C2_Witness ==
    /\ lastOp.op = "unlockWallet"
    /\ lastOp.result = "rate_limited"
    /\ LockedOut(lastOp.id)

\* C3: when the configured auto-lock timeout T > 0 has elapsed since the
\* last unlocking operation (and every timer that is due has run), no
\* coldkey is unlocked, whatever non-unlocking operations ran in between.
C3_AutoLockAfterTimeout ==
    \A u \in lastUnlock :
        ( /\ u.timeout > 0
          /\ autoLockTimeout = u.timeout
          /\ now - u.at >= u.timeout
          /\ TimersRun )
        => unlockedWallets = <<>>

SigningOps == {"signMessage", "signTransaction"} \cup TxKinds

\* C4: a signature-producing request for a coldkey id yields a signature
\* (and, for the transaction kinds, a submission) only if the id is in the
\* unlocked session, and then it is that session's pair that signs; for a
\* locked id it fails with the locked error and signs and submits nothing.
C4_SignOnlyUnlocked ==
    lastOp.op \in SigningOps =>
        /\ lastOp.signer /= "" =>
              /\ isUnlocked(lastOp.id)
              /\ unlockedWallets[lastOp.id] = lastOp.signer
        /\ lastOp.result \in {"signed", "success", "dispatch_error", "transport_error"} =>
              lastOp.signer /= ""
        /\ (lastOp.id /= 0 /\ ~isUnlocked(lastOp.id)) =>
              /\ lastOp.result = "locked"
              /\ lastOp.signer = ""

\* a transfer was requested for an active coldkey that is locked
C4_Witness ==
    /\ lastOp.op = "transfer:send"
    /\ lastOp.result = "locked"
    /\ HasActiveWallet
    /\ lastOp.id = activeWalletId
    /\ api = "up"

\* C5: a sensitive dApp call is answered without error only if an approval
\* registered for that very call was resolved with approved = true; a grant
\* is never enough, and the approvals that were approved are at least as many
\* as the calls that succeeded.
C5_FreshApproval ==
    /\ \A c \in DOMAIN calls :
          calls[c].status = "ok" =>
             \E id \in DOMAIN approvalLog :
                /\ approvalLog[id].call = c
                /\ approvalLog[id].how = "approved"
    /\ Cardinality({c \in DOMAIN calls : calls[c].status = "ok"})
          <= Cardinality({id \in DOMAIN approvalLog : approvalLog[id].how = "approved"})

\* a call of a granted origin succeeded while another call of the same
\* origin is still waiting for its own approval
C5_Witness ==
    \E c1, c2 \in DOMAIN calls :
       /\ calls[c1].status = "ok"
       /\ calls[c2].status = "waiting"
       /\ calls[c1].origin = calls[c2].origin
       /\ Connected(calls[c1].origin)

ExecutionSucceeded ==
    lastOp.signer /= "" \/ lastOp.result \in {"signed", "success", "dispatch_error"}

\* C6: executeApprovedAction signs or submits only when the origin holds a
\* grant, an active coldkey exists and that coldkey is unlocked; otherwise
\* it fails with the error of the failing check and signs nothing.
C6_ExecuteRevalidates ==
    lastOp.op = "executeApprovedAction" =>
       LET allowed == /\ Connected(lastOp.origin)
                      /\ HasActiveWallet
                      /\ isUnlocked(activeWalletId)
       IN /\ ExecutionSucceeded => allowed
          /\ ~allowed => /\ lastOp.result \in {"no_grant", "no_active", "locked"}
                         /\ lastOp.signer = ""

\* an unlocked active coldkey, but the origin has no grant: the call fails
C6_Witness ==
    /\ lastOp.op = "executeApprovedAction"
    /\ lastOp.result = "no_grant"
    /\ HasActiveWallet
    /\ isUnlocked(activeWalletId)

\* C7: the account executeApprovedAction signs with is listed in the
\* origin's grant.
C7_SignerIsGranted ==
    (lastOp.op = "executeApprovedAction" /\ lastOp.signer /= "") =>
       /\ Connected(lastOp.origin)
       /\ lastOp.signer \in permissions[lastOp.origin].accounts

\* C8: after revokePermission(origin) or disconnect has completed and until
\* grantPermission is next invoked for that origin, getAccounts(origin)
\* returns the empty list, whatever calls for other origins overlap.
C8_RevokedStaysEmpty ==
    (lastOp.op = "getAccounts" /\ lastOp.origin \in revoked) =>
       lastOp.accounts = {}

VaultAddresses == {w.address : w \in Range(wallets)}

\* C9: connect and getAccounts return only addresses listed in the origin's
\* grant that belong to a coldkey in the vault, the empty list when there is
\* no grant, and connect leaves the permission map as it was.
C9_OnlyGrantedVaultAccounts ==
    [][lastOp'.op \in {"connect", "getAccounts"} =>
         /\ permissions' = permissions
         /\ IF lastOp'.origin \in DOMAIN permissions
            THEN /\ lastOp'.accounts \subseteq permissions[lastOp'.origin].accounts
                 /\ lastOp'.accounts \subseteq VaultAddresses
            ELSE lastOp'.accounts = {}]_vars

\* connect answers with one account although the grant lists two and the
\* vault holds a second coldkey that is not listed
C9_Witness ==
    /\ lastOp.op = "connect"
    /\ lastOp.accounts = {"addr1"}
    /\ Connected(lastOp.origin)
    /\ permissions[lastOp.origin].accounts = {"addr1"}
    /\ "addr3" \in VaultAddresses

\* C10: every registered approval is settled at most once and, while it is
\* not settled, is pending with its timer armed for five minutes after its
\* registration; once settled it is gone from the map, its call has the
\* outcome of that one settlement, and nothing else touched its call.
C10_SettledExactlyOnce ==
    \A id \in DOMAIN approvalLog :
       LET a == approvalLog[id] IN
       /\ a.count <= 1
       /\ (a.count = 0) <=> (id \in DOMAIN pendingApprovals)
       /\ a.count = 0 =>
             /\ a.how = "none"
             /\ calls[a.call].status = "waiting"
             /\ [id |-> id, deadline |-> a.at + ApprovalTimeout] \in approvalTimers
             /\ now <= a.at + ApprovalTimeout
       /\ a.count = 1 =>
             calls[a.call].status =
                CASE a.how = "approved" -> "ok"
                  [] a.how = "rejected" -> "error_rejected"
                  [] a.how = "timeout" -> "error_timeout"
                  [] OTHER -> "unsettled"
       /\ \A other \in DOMAIN approvalLog : other /= id => approvalLog[other].call /= a.call

\* the timer of an approval the user had already approved fires, while
\* another approval is still pending
C10_Witness ==
    /\ lastOp.op = "approvalTimeout"
    /\ lastOp.result = "noop"
    /\ lastOp.id \in DOMAIN approvalLog
    /\ approvalLog[lastOp.id].how = "approved"
    /\ pendingApprovals /= <<>>

\* C12: after deleteWallet(id), run on its own, the vault holds no coldkey
\* with that id, no stored hotkey refers to it, it is not unlocked, and the
\* hotkeys of the other coldkeys are as they were.
C12_DeleteCascades ==
    [][lastOp'.op = "deleteWallet" =>
         LET id == lastOp'.id IN
         /\ \A w \in Range(wallets') : w.id /= id
         /\ \A h \in Range(hotkeys') : h.coldkeyId /= id
         /\ id \notin DOMAIN unlockedWallets'
         /\ hotkeys' = SelectSeq(hotkeys, LAMBDA h : h.coldkeyId /= id)]_vars

\* a coldkey with a hotkey was deleted (the hotkey's pair is still cached)
\* while another coldkey and its hotkeys remain
C12_Witness ==
    /\ lastOp.op = "deleteWallet"
    /\ wallets /= <<>>
    /\ hotkeys /= <<>>
    /\ \E h \in unlockedHotkeys : h \notin HotkeyIds

\* C13: right after changePassword(id, current, new) succeeded with new
\* different from current, unlockWallet(id, new) returns true and
\* unlockWallet(id, current) returns false (the coldkey not being under the
\* unlock rate limit), whatever the coldkey's type.
C13_NewPasswordUnlocks ==
    [][(/\ lastOp.op = "changePassword"
        /\ lastOp.result = "changed"
        /\ lastOp.current /= lastOp.new
        /\ ~LockedOut(lastOp.id))
       => /\ unlockWallet(lastOp.id, lastOp.new) => lastOp'.result = "true"
          /\ unlockWallet(lastOp.id, lastOp.current) => lastOp'.result = "false"]_vars

C11_NoOrphanHotkeys ==
    keyFlows = {} => \A h \in Range(hotkeys) : h.coldkeyId \in WalletIds

NoDuplicateAddress ==
    \A i, j \in 1..Len(wallets) : wallets[i].address = wallets[j].address => i = j

\* C16: no two coldkeys of the persisted vault have the same address, and a
\* creation or import whose address belongs to a stored coldkey when it
\* comes to store its own fails and leaves the vault, the active coldkey id,
\* the unlocked session and the hotkey store as they were, also when it
\* overlaps with another creation.
C16_UniqueAddress ==
    /\ []NoDuplicateAddress
    /\ [][\A f \in keyFlows :
            (/\ AddColdkeySave(f)
             /\ \E w \in Range(wallets) : w.address = f.item.address)
            => /\ lastOp'.result = "duplicate_address"
               /\ UNCHANGED <<wallets, activeWalletId, unlockedWallets,
                              unlockedHotkeys, hotkeys>>]_vars

\* C17: when changePassword skips a hotkey that does not decrypt under the
\* current password, the id of every skipped hotkey is reported to the
\* caller.
C17_SkippedReported ==
    (lastOp.op = "changePassword" /\ lastOp.result = "changed")
        => lastOp.reported = lastOp.skipped

\* C18: changePassword with a wrong current password fails and changes no
\* ciphertext; when it succeeds it changes the ciphertext of the coldkey and
\* of those of its hotkeys that decrypt under the current password, and
\* nothing else: other coldkeys, other hotkeys, the coldkey's hotkeys under
\* another password, the active coldkey id and the unlocked session stay.
C18_ChangePasswordFrame ==
    [][lastOp'.op = "changePassword" =>
        LET id == lastOp'.id
            cur == lastOp'.current
        IN
        /\ (HasWallet(id) /\ ~CanDecrypt(FindWallet(id).encrypted, cur))
              => lastOp'.result = "incorrect"
        /\ lastOp'.result /= "changed" => UNCHANGED <<wallets, hotkeys>>
        /\ Len(wallets') = Len(wallets) /\ Len(hotkeys') = Len(hotkeys)
        /\ \A i \in 1..Len(wallets) :
              /\ wallets[i].id /= id => wallets'[i] = wallets[i]
              /\ wallets'[i] = [wallets[i] EXCEPT !.encrypted = wallets'[i].encrypted]
        /\ \A i \in 1..Len(hotkeys) :
              /\ (hotkeys[i].coldkeyId /= id \/ ~CanDecrypt(hotkeys[i].encrypted, cur))
                    => hotkeys'[i] = hotkeys[i]
              /\ hotkeys'[i] = [hotkeys[i] EXCEPT !.encrypted = hotkeys'[i].encrypted]
        /\ UNCHANGED <<activeWalletId, autoLockTimeout, sessionVars>>]_vars

C18_Witness ==
    /\ lastOp.op = "changePassword" /\ lastOp.result = "changed"
    /\ lastOp.current /= lastOp.new
    /\ lastOp.skipped /= {}
    /\ \E h \in Range(hotkeys) :
          h.coldkeyId = lastOp.id /\ h.id \notin lastOp.skipped
          /\ h.encrypted.key = lastOp.new
    /\ \E w \in Range(wallets) : w.id = lastOp.id /\ w.encrypted.key = lastOp.new

\* C19: no outbound-transaction operation raises to its caller: in every
\* state, without a connection included, and for every failure of the nonce
\* fetch, the signing or the submission, it returns a structured result.
C19_NeverRaises == lastOp.op \in TxOps => ~lastOp.raised

\* C20: for every transaction kind, a result with success = true is given
\* only after the chain reported the transaction in a block or finalized
\* without a dispatch error, and a rejection by the chain is given as
\* success = false with the error.
C20_SuccessAfterInclusion ==
    /\ [](lastOp.op \in TxOps /\ ~lastOp.raised /\ lastOp.success
             => lastOp.chain \in {"inBlock", "finalized"} /\ lastOp.dispatch = "none")
    /\ [][\A f \in txs, status \in {"inBlock", "finalized"},
             dispatchError \in DispatchErrors \ {"none"} :
             submitAndWaitForBlock(f, status, dispatchError)
                => ~lastOp'.success /\ lastOp'.error /= ""]_vars

\* C21: in every state other than Connected (never connected, disconnected,
\* a connect in flight, the link lost and a reconnect pending) a chain query
\* fails with the not-connected error and issues no request on a link.
C21_QueriesNeedConnected ==
    [][(lastOp'.op \in Queries /\ ~ConnectedState) =>
          lastOp'.result \in {"not_connected", "request_failed"}]_vars

\* C22: once five consecutive connect attempts, the initial connect and the
\* automatic retries, have failed, no automatic reconnection is scheduled or
\* started until an explicit connect() is made.
C22_StopsAfterFiveFailures ==
    [][failures' >= maxReconnectAttempts =>
          /\ reconnectTimers' \subseteq reconnectTimers
          /\ \A f \in connFlows' \ connFlows : ~(f.auto /\ f.pc = "handshake")]_vars

\* C23: the connection manager has at most one link open or being opened at
\* any time, and a connect() that arrives while a connect is in flight
\* returns failure without opening a link or changing the connection state.
C23_AtMostOneLink ==
    /\ [](Cardinality(LiveLinks) <= 1)
    /\ [][\A n \in Networks : (isConnecting /\ connectBegin(n, "")) =>
             /\ lastOp'.result = "in_flight"
             /\ UNCHANGED <<api, apiLink, provider, links, currentNetwork, isConnecting,
                            reconnectAttempts, reconnectTimers, connFlows>>
             /\ notified' = "none"]_vars

C23_Witness ==
    /\ lastOp.op = "connect" /\ lastOp.result = "in_flight"
    /\ Cardinality(LiveLinks) = 1
    /\ currentNetwork = "n1"
    /\ \E f \in connFlows : f.network = "n2" /\ ~f.auto

\* C24: connect(target) while Connected to that target returns success and
\* changes nothing: the link, the target, the reconnect counter and the
\* in-flight flag stay, no link is closed or opened, and the connectivity
\* callback is not invoked.
C24_ConnectSameTargetNoOp ==
    [][\A n \in Networks : (ConnectedState /\ currentNetwork = n /\ connectBegin(n, "")) =>
          /\ lastOp'.result = "true"
          /\ UNCHANGED <<api, apiLink, provider, links, currentNetwork, isConnecting,
                         reconnectAttempts, reconnectTimers, connFlows>>
          /\ notified' = "none"]_vars

C24_Witness ==
    /\ lastOp.op = "connect" /\ lastOp.result = "true" /\ notified = "none"
    /\ ConnectedState /\ connFlows = {}

\* C25: the connectivity callback is invoked with true on every transition
\* into Connected and with false on every transition out of it, and is not
\* invoked when the status does not change.
C25_CallbackOnTransitions ==
    /\ [](ConnectedState => told)
    /\ [][notified' /= "none" => (notified' = "true") /= told]_vars

\* C26: getTransferFee never fails its caller: when the fee cannot be had
\* from the chain, the dry run failing or no connection, it returns the
\* fixed fallback estimate.
C26_FeeNeverRaises == lastOp.op = "getTransferFee" => lastOp.result /= "throw"

C28_NoPlaintextSecretStored ==
    /\ localStorage.mnemonic \notin Mnemonics
    /\ \A w \in Range(wallets) : w.encrypted.key \in Passwords /\ w.address \notin Mnemonics

\* C29: decrypt(encrypt(p, pw), pw2) returns exactly p when pw2 = pw and
\* fails with a decryption error when pw2 differs from pw, whatever salt and
\* nonce encrypt drew.
C29_RoundTrip ==
    opened.called =>
       IF opened.password = sealed.password
       THEN opened.ok /\ opened.text = sealed.data
       ELSE ~opened.ok

\* C30: once lock() has returned, isUnlocked(id) stays false until an unlock
\* issued after that lock succeeds: an unlockWallet that was suspended in
\* decryption when lock() ran and resumes next puts no capability back and
\* arms no timer.
C30_LockOutlastsSuspendedUnlock ==
    [][\A f \in keyFlows :
          (lastOp.op = "lock" /\ f.op = "unlockWallet" /\ f \notin keyFlows') =>
             /\ f.id \notin DOMAIN unlockedWallets'
             /\ lockTimeout' = {}]_vars

\* C31: after an explicit disconnect() has returned and until the next
\* connect() call, the connection manager is never Connected, no link is
\* opened and no reconnection is scheduled, whatever a reconnect timer
\* scheduled earlier or a connect in flight at the disconnect does.
C31_DisconnectIsFinal ==
    /\ [](disconnected => ~ConnectedState)
    /\ [][(disconnected /\ disconnected') =>
             /\ LiveLinks' \subseteq LiveLinks
             /\ reconnectTimers' \subseteq reconnectTimers]_vars

\* C32: a completed update of the vault or the hotkey store stays in
\* persisted storage until an operation undoes it, whatever operations it
\* overlapped: a stored hotkey leaves the store only in the cascade of its
\* coldkey's deletion, and a coldkey enters the vault only in the save of its
\* own creation, so that no deleted coldkey reappears.
C32_NoLostUpdate ==
    [][/\ \A i \in DOMAIN hotkeys :
             (\A j \in DOMAIN hotkeys' : hotkeys'[j].id /= hotkeys[i].id) =>
                \E f \in keyFlows \ keyFlows' :
                   f.op = "deleteWallet" /\ f.pc = "cascade" /\ f.id = hotkeys[i].coldkeyId
       /\ \A j \in DOMAIN wallets' :
             (\A i \in DOMAIN wallets : wallets[i].id /= wallets'[j].id) =>
                \E f \in keyFlows \ keyFlows' :
                   f.op \in CreationOps /\ f.pc = "check" /\ f.id = wallets'[j].id]_vars

\* C33: unlockWallet carries out a wrong-password decryption on a coldkey
\* only while fewer than five failures are counted for it in the window, and
\* every failed attempt raises the coldkey's failure count by exactly one,
\* also when unlockWallet calls overlap.
C33_FailuresCountedOnce ==
    [][\A f \in keyFlows :
          (unlockWalletDecrypted(f) /\ ~UnlockDecrypts(f.item.wallet, f.password)) =>
             /\ GetAttempts(f.id).count < MaxFailedAttempts
             /\ GetAttempts(f.id)'.count = GetAttempts(f.id).count + 1]_vars

\* C34: a transaction request whose signer was captured before lock() ran
\* is not turned away as locked and signs with the captured key pair; once
\* lock() has returned isUnlocked(id) is false for every id; and a request
\* that reaches its unlock test while the coldkey is locked is turned away
\* with the locked error and never signs.
C34_LockSparesCapturedSigner ==
    /\ [](lastOp.op = "lock" => \A id \in Uuids : ~isUnlocked(id))
    /\ [][\A f \in RequestFlows :
            /\ (f.pc \in {"nonce", "sign", "sent"} /\ f \notin keyFlows') =>
                  \/ lastOp'.result /= "locked"
                  \/ \E g \in keyFlows' : g.op = f.op
            /\ requestSigned(f) =>
                  \E g \in keyFlows' :
                     g.op = f.op /\ g.pc = "sent" /\ g.item.signature = f.item.keypair
            /\ (requestAdmitted(f) /\ ~isUnlocked(ActiveIn(f.store))) =>
                  /\ lastOp'.result \in {"locked", "no_active"}
                  /\ \A g \in keyFlows' : g.op /= f.op]_vars

\* a request has signed with the key pair it captured although lock() has
\* emptied the session since
C34_Witness ==
    \E f \in RequestFlows :
        /\ f.pc = "sent"
        /\ f.item.signature = "addr1"
        /\ ~isUnlocked(f.id)
        /\ lockState

\* C35: every call of transfer, addStake, removeStake or moveStake returns
\* in the end, whatever the chain reports about the transaction: the call
\* does not stay suspended for ever at any point.
C35_TransactionCallsReturn ==
    (\E f \in txs : f.op \in WaitingOps) ~> (txs = {})

\* C36: whenever a signing capability is cached, a coldkey in the unlocked
\* session or a hotkey in the unlocked-hotkey cache, and the configured
\* auto-lock timeout is above zero, an auto-lock timer is pending.
C36_CachedKeysHaveTimer ==
    ((DOMAIN unlockedWallets /= {} \/ unlockedHotkeys /= {}) /\ autoLockTimeout > 0)
        => lockTimeout /= {}

\* the failed unlockHotkey attempts on the id in the last 15 minutes
RecentHotkeyFailures(hotkeyId) ==
    Cardinality({i \in DOMAIN HotkeyFailures(hotkeyId) :
                    now - HotkeyFailures(hotkeyId)[i] <= RateLimitWindow})

\* C37: after five failed unlockHotkey attempts on a hotkey id within 15
\* minutes, with no successful one since, a further unlockHotkey on that id
\* fails with the rate-limit error and decrypts nothing.
C37_HotkeyRateLimited ==
    [][\A id \in Uuids :
          (/\ RecentHotkeyFailures(id) >= MaxFailedAttempts
           /\ lastOp'.op = "unlockHotkey" /\ lastOp'.id = id) =>
             /\ lastOp'.result = "rate_limited"
             /\ UNCHANGED unlockedHotkeys]_vars

\* C38: a reconnect timer that fires for a target the manager is not
\* connected to, while no connect is in flight, opens a link to the url of
\* the connection that failed or was lost, custom targets included.
C38_ReconnectOpensSameUrl ==
    [][\A d \in reconnectTimers :
          (reconnectTimerFires(d) /\ ~isConnecting /\ currentNetwork /= "" /\ ~isConnected) =>
             \E l \in DOMAIN links' \ DOMAIN links :
                links'[l].status = "opening" /\ links'[l].url = currentUrl]_vars

\* C39: a connect(targetId, customUrl) for a custom target that returns
\* success leaves the manager connected on a link to customUrl, also when it
\* was connected to the same custom id under another url.
C39_CustomConnectUsesUrl ==
    [][/\ \A n \in CustomIds, u \in CustomUrls :
             (connectBegin(n, u) /\ lastOp'.result = "true") =>
                isConnected' /\ links'[apiLink'].url = u
       /\ \A f \in connFlows :
             (apiReady(f) /\ ~f.auto /\ IsCustomId(f.network)) =>
                isConnected' /\ links'[apiLink'].url = f.url]_vars

\* C40: when the origin holds a grant and the active coldkey is unlocked,
\* executeApprovedAction carries out each of the five sensitive methods and
\* returns its outcome; it rejects none of them as an unknown method.
C40_SensitiveMethodsExecuted ==
    (/\ lastOp.op = "executeApprovedAction"
     /\ lastOp.method \in SensitiveMethods
     /\ Connected(lastOp.origin)
     /\ HasActiveWallet /\ isUnlocked(activeWalletId)) =>
        /\ lastOp.result \notin {"unknown_method", "no_grant", "no_active", "locked"}
        /\ lastOp.signer = unlockedWallets[activeWalletId]

====
